---------------------------- MODULE Spec2Model ----------------------------
(***************************************************************************)
(* Model of the timing game "Time It Right": the game-session lifecycle    *)
(* (start, stop, lazy expiry, batch expiry) over the session store.        *)
(*                                                                         *)
(* Every request is a coroutine.  A coroutine runs without preemption      *)
(* between two awaits, and every await in the use cases is one statement   *)
(* on the store, so a request is modelled as a task whose steps are its    *)
(* store statements and the synchronous blocks that read the clock.        *)
(* Tasks interleave freely at these steps and the clock may advance        *)
(* between any two of them.                                                *)
(*                                                                         *)
(* Time is counted in ticks, SubMs ticks to the millisecond, so that        *)
(* elapsed times with a sub-millisecond remainder exist.  The source        *)
(* computes the duration in binary floating point,                         *)
(* int(total_seconds() * 1000); the model computes the same truncation in  *)
(* exact arithmetic.                                                       *)
(***************************************************************************)
EXTENDS Integers, Sequences, FiniteSets

(* ------------------------------ bounds -------------------------------- *)
NumUsers == 2
MaxSessions == 2
MaxTasks == 2
MaxTicks == 2
MaxCalls == 3
SubMs == 4
NumSockets == 2
MaxSenders == 1
MaxWsCalls == 3
MaxInfo == 4
MaxRows == 3
MaxLimit == 3
MaxStops == 1
MaxFrames == 2
DeviationBound == 2001

(* ------------------------- program constants -------------------------- *)
target_time_ms == 10000
session_expire_minutes == 30
leaderboard_top_count == 10

Users == 1..NumUsers
Sockets == 1..NumSockets
Senders == 1..MaxSenders
SessionIds == 1..MaxSessions
Tasks == 1..MaxTasks

TargetTicks == target_time_ms * SubMs
TTLTicks == session_expire_minutes * 60 * 1000 * SubMs
\* The amounts by which the clock advances in one step: the target time and
\* a sub-millisecond remainder, or the time to live of a session.
ClockSteps == {TargetTicks + SubMs - 1, TTLTicks}

(* Optional values: None, or a one-element sequence holding the value. *)
None == << >>
Some(v) == << v >>
IsSome(o) == o # << >>
Val(o) == o[1]

Abs(x) == IF x < 0 THEN -x ELSE x

VARIABLES
    sessions,  \* the game_sessions table: a sequence of rows, id = index
    now,       \* datetime.utcnow(), in ticks
    ticks,     \* how many times the clock advanced
    calls,     \* how many requests were accepted
    tasks,     \* the requests in flight, one per slot; tasks[t].writes counts
               \* the statements of request t that wrote to the store
    sweeps,    \* what the finished ExpireOldSessions calls returned, in order
    reply,     \* what the last query (history, leaderboard) returned
    connections,      \* WebSocketManager.connections: type -> set of sockets
    connection_info,  \* WebSocketManager.connection_info, in insertion order
    failing,   \* the sockets whose send_text raises
    inbox,     \* the messages each socket received
    received,  \* the messages each socket received, in the order of arrival
    senders,   \* the send_to_* and broadcast calls in flight, one per slot
    endpoint,  \* where the endpoint coroutine of each socket stands
    wsCalls,   \* how many calls the WebSocketManager accepted
    stops,     \* the stop_game handlers in flight, one per request slot:
               \* what each does after StopGameUseCase.execute
    payloads,  \* the messages the notification service has built
    handlers,  \* the coroutine of websocket_leaderboard_endpoint of each
               \* socket: its position, the frame it handles and the
               \* replies it has sent for that frame
    score      \* a deviation with the grade and the accuracy score computed
               \* for it

queryVars == << reply, score >>
apiVars == << stops, payloads, handlers >>
wsVars == << connections, connection_info, failing, inbox, received, senders,
           endpoint, wsCalls, apiVars >>
gameVars == << sessions, now, ticks, calls, tasks, sweeps >>
vars == << sessions, now, ticks, calls, tasks, sweeps, reply,
           connections, connection_info, failing, inbox, received, senders,
           endpoint, wsCalls, stops, payloads, handlers, score >>

(* ------------------------------ entity -------------------------------- *)
SessionStatus == {"active", "completed", "expired"}

\* _to_entity: the row `id` of table tbl, with its id.
RowEntity(tbl, id) ==
    [id |-> id,
     user_id |-> tbl[id].user_id,
     start_time |-> tbl[id].start_time,
     stop_time |-> tbl[id].stop_time,
     duration_ms |-> tbl[id].duration_ms,
     deviation_ms |-> tbl[id].deviation_ms,
     status |-> tbl[id].status,
     created_at |-> tbl[id].created_at]

to_entity(id) == RowEntity(sessions, id)

is_active(e) == e.status = "active"
is_completed(e) == e.status = "completed"

\* is_expired with a non-strict comparison.
is_expired_at_ttl(e, t) ==
    IF e.status # "active" THEN FALSE
    ELSE t >= e.start_time + TTLTicks

\* is_expired: strict comparison with start_time + ttl, read at clock value t.
is_expired(e, t) ==
    IF e.status # "active" THEN FALSE
    ELSE t > e.start_time + TTLTicks

\* expire_session that leaves the status as it is.
expire_session_noop(e) == e

\* expire_session: mutates only when the status is active.
expire_session(e) ==
    IF e.status = "active" THEN [e EXCEPT !.status = "expired"] ELSE e

\* int((stop_time - start_time).total_seconds() * 1000): int() truncates
\* toward zero.
ElapsedMs(start, stop) ==
    IF stop >= start THEN (stop - start) \div SubMs
    ELSE -((start - stop) \div SubMs)

\* complete_session with the deviation left signed (no abs).
complete_session_signed(e, stop) ==
    LET d == ElapsedMs(e.start_time, stop) IN
    [e EXCEPT !.stop_time = Some(stop),
              !.duration_ms = Some(d),
              !.deviation_ms = Some(d - target_time_ms),
              !.status = "completed"]

\* complete_session, called on an active entity (the caller checked it).
complete_session(e, stop) ==
    LET d == ElapsedMs(e.start_time, stop) IN
    [e EXCEPT !.stop_time = Some(stop),
              !.duration_ms = Some(d),
              !.deviation_ms = Some(Abs(d - target_time_ms)),
              !.status = "completed"]

(* ---------------------------- repository ------------------------------ *)
\* The WHERE clause of get_active_by_user over table tbl.
ActiveIn(tbl, u) ==
    {i \in 1..Len(tbl) : tbl[i].user_id = u /\ tbl[i].status = "active"}

ActiveIdsOf(u) == ActiveIn(sessions, u)

\* get_active_by_user: scalar_one_or_none() returns the row, or None when
\* there is none, and raises MultipleResultsFound when there are several.
get_active_raises(u) == Cardinality(ActiveIdsOf(u)) > 1
get_active_by_user(u) ==
    IF ActiveIdsOf(u) = {} THEN None
    ELSE Some(to_entity(CHOOSE i \in ActiveIdsOf(u) : TRUE))

\* get_by_id
get_by_id(id) ==
    IF id \in 1..Len(sessions) THEN Some(to_entity(id)) ELSE None

\* update that forgets the deviation column.
update_without_deviation(e) ==
    [sessions EXCEPT ![e.id] =
        [@ EXCEPT !.stop_time = e.stop_time,
                  !.duration_ms = e.duration_ms,
                  !.status = e.status]]

\* update that also stamps the row with the time of the write.
update_stamping(e) ==
    [sessions EXCEPT ![e.id] =
        [@ EXCEPT !.stop_time = e.stop_time,
                  !.duration_ms = e.duration_ms,
                  !.deviation_ms = e.deviation_ms,
                  !.status = e.status,
                  !.created_at = now]]

\* update: writes the four mutable columns of the entity's row.
update(e) ==
    [sessions EXCEPT ![e.id] =
        [@ EXCEPT !.stop_time = e.stop_time,
                  !.duration_ms = e.duration_ms,
                  !.deviation_ms = e.deviation_ms,
                  !.status = e.status]]

\* create: inserts a row with the entity's user, start time and status; the
\* store assigns the id and created_at.
create(e) ==
    Append(sessions,
        [user_id |-> e.user_id,
         start_time |-> e.start_time,
         stop_time |-> None,
         duration_ms |-> None,
         deviation_ms |-> None,
         status |-> e.status,
         created_at |-> now])

\* get_leaderboard, its WHERE clause: the completed rows of table tbl that
\* have a deviation.
LeaderboardRows(tbl) ==
    {i \in 1..Len(tbl) :
        tbl[i].status = "completed" /\ tbl[i].deviation_ms # None}

\* expire_old_sessions whose SELECT also takes the rows started at the cutoff.
expire_select_inclusive(cutoff) ==
    {i \in 1..Len(sessions) :
        sessions[i].status = "active" /\ sessions[i].start_time <= cutoff}

\* expire_old_sessions, its SELECT: the active rows started before the cutoff.
expire_select(cutoff) ==
    {i \in 1..Len(sessions) :
        sessions[i].status = "active" /\ sessions[i].start_time < cutoff}

\* expire_old_sessions whose commit stores nothing.
expire_commit_noop(ids) == sessions

\* expire_old_sessions, its commit: the selected rows become expired.
expire_commit(ids) ==
    [i \in 1..Len(sessions) |->
        IF i \in ids THEN [sessions[i] EXCEPT !.status = "expired"]
        ELSE sessions[i]]

(* -------------------------- repository queries ------------------------ *)
\* The orders in which the store may return the rows ids under a sort key,
\* given as the set inOrder of the pairs << a, b >> where a may come before
\* b: rows that compare equal come in any order.
Orderings(ids, inOrder) ==
    {q \in [1..Cardinality(ids) -> ids] :
        /\ \A a, b \in DOMAIN q : a # b => q[a] # q[b]
        /\ \A a, b \in DOMAIN q : a < b => << q[a], q[b] >> \in inOrder}

\* LIMIT n of the store (SQLite): the first n rows, and every row when n is
\* negative.
Limit(q, n) ==
    IF n < 0 \/ n >= Len(q) THEN q ELSE SubSeq(q, 1, n)

\* get_by_user: the rows of the user, latest created_at first, limited; the
\* set of the lists the store may return.
get_by_user(tbl, u, limit) ==
    LET ids == {i \in 1..Len(tbl) : tbl[i].user_id = u}
        Desc == {p \in ids \X ids : tbl[p[1]].created_at >= tbl[p[2]].created_at}
    IN  {[k \in DOMAIN Limit(q, limit) |-> RowEntity(tbl, Limit(q, limit)[k])] :
            q \in Orderings(ids, Desc)}

\* Sum and minimum of the deviations of a set of rows.
RECURSIVE SumDeviation(_, _)
SumDeviation(tbl, ids) ==
    IF ids = {} THEN 0
    ELSE LET i == CHOOSE i \in ids : TRUE
         IN  Val(tbl[i].deviation_ms) + SumDeviation(tbl, ids \ {i})

\* The maximum in the place of the minimum.
MaxDeviation(tbl, ids) ==
    CHOOSE d \in {Val(tbl[i].deviation_ms) : i \in ids} :
        \A i \in ids : d >= Val(tbl[i].deviation_ms)

MinDeviation(tbl, ids) ==
    CHOOSE d \in {Val(tbl[i].deviation_ms) : i \in ids} :
        \A i \in ids : d <= Val(tbl[i].deviation_ms)

\* round(sum / n, 2), in hundredths of a millisecond: the nearest
\* hundredth, a tie going to the even one.
RoundAvg(sum, n) ==
    LET q == (100 * sum) \div n
        r == (100 * sum) % n
    IN  IF 2 * r < n THEN q
        ELSE IF 2 * r > n THEN q + 1
        ELSE IF q % 2 = 0 THEN q ELSE q + 1

\* The rows of get_leaderboard that belong to user u (JOIN and WHERE).
GroupOf(tbl, u) == {i \in LeaderboardRows(tbl) : tbl[i].user_id = u}

\* get_leaderboard with the groups ordered by their best deviation.
get_leaderboard_by_best(tbl, limit) ==
    LET users == {tbl[i].user_id : i \in LeaderboardRows(tbl)}
        Asc == {p \in users \X users :
                   MinDeviation(tbl, GroupOf(tbl, p[1]))
                       <= MinDeviation(tbl, GroupOf(tbl, p[2]))}
        EntryOf(u, idx) ==
            [user_id |-> u,
             avg_deviation_ms |-> RoundAvg(SumDeviation(tbl, GroupOf(tbl, u)),
                                           Cardinality(GroupOf(tbl, u))),
             best_deviation_ms |-> MinDeviation(tbl, GroupOf(tbl, u)),
             total_games |-> Cardinality(GroupOf(tbl, u)),
             rank |-> idx]
    IN  {[k \in DOMAIN Limit(q, limit) |-> EntryOf(Limit(q, limit)[k], k)] :
            q \in Orderings(users, Asc)}

\* get_leaderboard: the completed rows that have a deviation, grouped by
\* user, ordered by the average deviation ascending, limited; each entry
\* carries the rounded average, the minimum, the count and rank idx + 1.
\* Two averages are compared exactly: sum1 / n1 <= sum2 / n2.
get_leaderboard(tbl, limit) ==
    LET users == {tbl[i].user_id : i \in LeaderboardRows(tbl)}
        Asc == {p \in users \X users :
                   SumDeviation(tbl, GroupOf(tbl, p[1])) * Cardinality(GroupOf(tbl, p[2]))
                       <= SumDeviation(tbl, GroupOf(tbl, p[2])) * Cardinality(GroupOf(tbl, p[1]))}
        EntryOf(u, idx) ==
            [user_id |-> u,
             avg_deviation_ms |-> RoundAvg(SumDeviation(tbl, GroupOf(tbl, u)),
                                           Cardinality(GroupOf(tbl, u))),
             best_deviation_ms |-> MinDeviation(tbl, GroupOf(tbl, u)),
             total_games |-> Cardinality(GroupOf(tbl, u)),
             rank |-> idx]
    IN  {[k \in DOMAIN Limit(q, limit) |-> EntryOf(Limit(q, limit)[k], k)] :
            q \in Orderings(users, Asc)}

(* ------------------------------- tasks -------------------------------- *)
IdleTask ==
    [op |-> "idle", pc |-> "idle", user |-> 0, sid |-> 0, ent |-> None,
     result |-> "", cutoff |-> 0, rows |-> {}, count |-> 0, writes |-> 0]

NewTask(op, pc, u, sid) ==
    [IdleTask EXCEPT !.op = op, !.pc = pc, !.user = u, !.sid = sid]

SetTask(t, r) == tasks' = [tasks EXCEPT ![t] = r]
\* The request ends with result res; the slot keeps the response until the
\* next request takes it.
Finish(t, res) ==
    [tasks[t] EXCEPT !.pc = "done", !.result = res, !.cutoff = 0, !.rows = {}]

Free(t) == tasks[t].pc \in {"idle", "done"}

\* A request is accepted into the lowest free slot.
Accept(t) ==
    /\ Free(t)
    /\ \A t2 \in Tasks : t2 < t => ~Free(t2)
    /\ calls < MaxCalls
    /\ calls' = calls + 1

\* The rows the store will hold once every start request in flight has
\* inserted its row.
Reserved ==
    Len(sessions) + Cardinality({t \in Tasks : tasks[t].op = "start" /\ ~Free(t)})

(* ------------------------- WebSocketManager --------------------------- *)
\* The connection types the manager is called with.
ConnectionTypes == {"leaderboard", "notifications"}

\* connections is a dict from connection type to a set of sockets;
\* connection_info is a dict from socket to its type and user.  A dict
\* keeps its entries in insertion order and a deleted entry leaves a hole
\* (Tomb) until the dict is resized, which does not happen before its sixth
\* insertion: the model keeps at most MaxInfo entries.
EmptyMap == [t \in {} |-> {}]
\* user_id 0 is None; subscribed_user_id 0 is the absent key
\* "subscribed_user_id".
Tomb == [ws |-> 0, type |-> "", user_id |-> 0, subscribed_user_id |-> 0]
Entry(ws, type, u) ==
    [ws |-> ws, type |-> type, user_id |-> u, subscribed_user_id |-> 0]

\* websocket in self.connection_info, and the place of its entry.
HasInfo(info, ws) == \E i \in 1..Len(info) : info[i].ws = ws
InfoIndex(info, ws) == CHOOSE i \in 1..Len(info) : info[i].ws = ws
\* len(self.connection_info)
LenInfo(info) == Cardinality({i \in 1..Len(info) : info[i].ws # 0})

\* self.connections.get(type, set()) and the keys of self.connection_info.
Members(conns, type) == IF type \in DOMAIN conns THEN conns[type] ELSE {}
Registered(info) == {info[i].ws : i \in {j \in 1..Len(info) : info[j].ws # 0}}

\* The two maps of the manager as one value.
Reg == [connections |-> connections, connection_info |-> connection_info]

\* connect, after accept() has returned: the socket is added to the set of
\* its type, which is created when absent, and its metadata is written.
register(reg, ws, type, u) ==
    LET conns == reg.connections
        info == reg.connection_info
    IN  [connections |->
             [t \in DOMAIN conns \cup {type} |->
                 IF t = type
                 THEN (IF t \in DOMAIN conns THEN conns[t] ELSE {}) \cup {ws}
                 ELSE conns[t]],
         connection_info |->
             IF HasInfo(info, ws)
             THEN [info EXCEPT ![InfoIndex(info, ws)] = Entry(ws, type, u)]
             ELSE Append(info, Entry(ws, type, u))]

\* disconnect that leaves the emptied set of a type in the map.
disconnect_keep_empty(reg, ws) ==
    LET conns == reg.connections
        info == reg.connection_info
    IN  IF ~HasInfo(info, ws) THEN reg
        ELSE LET type == info[InfoIndex(info, ws)].type
             IN  [connections |->
                      IF type \notin DOMAIN conns THEN conns
                      ELSE [conns EXCEPT ![type] = @ \ {ws}],
                  connection_info |-> [info EXCEPT ![InfoIndex(info, ws)] = Tomb]]

\* disconnect: only for a socket that has metadata; the socket leaves the
\* set of the type its metadata names, an emptied set is deleted, and the
\* metadata is deleted.
disconnect(reg, ws) ==
    LET conns == reg.connections
        info == reg.connection_info
    IN  IF ~HasInfo(info, ws) THEN reg
        ELSE LET type == info[InfoIndex(info, ws)].type
                 rest == conns[type] \ {ws}
             IN  [connections |->
                      IF type \notin DOMAIN conns THEN conns
                      ELSE IF rest = {}
                           THEN [t \in DOMAIN conns \ {type} |-> conns[t]]
                           ELSE [conns EXCEPT ![type] = rest],
                  connection_info |-> [info EXCEPT ![InfoIndex(info, ws)] = Tomb]]

\* for connection in disconnected: self.disconnect(connection)
RECURSIVE disconnect_each(_, _)
disconnect_each(reg, D) ==
    IF D = {} THEN reg
    ELSE LET c == CHOOSE c \in D : TRUE
         IN  disconnect_each(disconnect(reg, c), D \ {c})

\* get_connection_count(connection_type)
get_connection_count(conns, type) ==
    IF type \in DOMAIN conns THEN Cardinality(conns[type]) ELSE 0

\* The number of types in the place of the number of connections.
count_types(conns) == Cardinality(DOMAIN conns)

\* get_connection_count(): the sizes of the sets of all types, added up.
RECURSIVE SumSizes(_, _)
SumSizes(conns, types) ==
    IF types = {} THEN 0
    ELSE LET ty == CHOOSE ty \in types : TRUE
         IN  Cardinality(conns[ty]) + SumSizes(conns, types \ {ty})

get_connection_count_total(conns) == SumSizes(conns, DOMAIN conns)

\* The subscription written over the user of the socket.
subscribe_as_owner(reg, ws, target) ==
    LET info == reg.connection_info
    IN  IF ~HasInfo(info, ws) THEN reg
        ELSE [reg EXCEPT !.connection_info[InfoIndex(info, ws)].user_id = target]

\* handle_client_message, subscribe_user_updates: the subscription is
\* written into the metadata of a socket that has metadata.
subscribe(reg, ws, target) ==
    LET info == reg.connection_info
    IN  IF ~HasInfo(info, ws) THEN reg
        ELSE [reg EXCEPT !.connection_info[InfoIndex(info, ws)].subscribed_user_id = target]

\* send_to_user that also takes the sockets subscribed to the user.
Matches_or_subscribed(entry, u) ==
    entry.user_id = u \/ entry.subscribed_user_id = u

\* send_to_user, the test of its loop: info["user_id"] == user_id.
Matches(entry, u) == entry.user_id = u

\* A call of send_to_connection_type ("type"), send_to_user ("user") or
\* broadcast ("all"): snap is the copy of the connections taken at the call
\* and todo what is left of it; pos, used and left are the state of the
\* iterator over connection_info.items(); cur is the socket whose send_text
\* is awaited and behind the messages whose send_text on that socket was
\* called earlier and was still awaited; attempted lists the sockets
\* send_text was called on.  For send_to_user snap notes the sockets of the
\* user at the call.
IdleSender ==
    [op |-> "idle", pc |-> "idle", type |-> "", user |-> 0, msg |-> 0,
     snap |-> {}, todo |-> {}, pos |-> 0, used |-> 0, left |-> 0, cur |-> 0,
     behind |-> {}, disconnected |-> {}, attempted |-> << >>, result |-> ""]

\* No query has been answered yet.
NoReply == [op |-> "none", user |-> 0, limit |-> 0, rows |-> << >>]

\* WebSocketManager.__init__: both maps empty; no socket has received
\* anything and no call is in flight.
WsInit ==
    /\ connections = EmptyMap
    /\ connection_info = << >>
    /\ failing = {}
    /\ inbox = [s \in Sockets |-> {}]
    /\ received = [s \in Sockets |-> << >>]
    /\ senders = [t \in Senders |-> IdleSender]
    /\ endpoint = [s \in Sockets |-> "new"]
    /\ wsCalls = 0

\* A stop_game handler: lb is the leaderboard its notification read, call
\* the number of the message whose broadcast it awaits; notified and
\* high_score count its calls of notify_leaderboard_update and of
\* notify_new_high_score, notify_user is the argument of the former;
\* raised names the statements that raised; result is the status of its
\* response and body the StopGameResponse.
IdleStop ==
    [pc |-> "idle", lb |-> << >>, call |-> 0, notified |-> 0,
     notify_user |-> 0, high_score |-> 0, raised |-> {}, result |-> "",
     body |-> << >>]

\* An endpoint coroutine that has not started: frame is the frame it
\* handles, reply the reply whose send_text it awaits and reply_user the
\* data.user_id of that reply (0 when it has none), replies the replies it
\* has sent for the frame, frames the frames it has received; ahead notes
\* the stop requests whose query the database had been given before the
\* leaderboard query the coroutine awaits.
IdleHandler ==
    [pc |-> "new", user |-> 0, frame |-> "", reply |-> "", reply_user |-> 0,
     replies |-> << >>, frames |-> 0, ahead |-> {}]

\* Nothing has been graded: no deviation, no grade, no accuracy score.
NoScore == [deviation_ms |-> None, grade |-> "", accuracy |-> None]

\* No request is in flight on the presentation layer.
ApiInit ==
    /\ stops = [t \in Tasks |-> IdleStop]
    /\ payloads = << >>
    /\ handlers = [s \in Sockets |-> IdleHandler]
    /\ score = NoScore

Init ==
    /\ sessions = << >>
    /\ now = 0
    /\ ticks = 0
    /\ calls = 0
    /\ tasks = [t \in Tasks |-> IdleTask]
    /\ sweeps = << >>
    /\ reply = NoReply
    /\ WsInit
    /\ ApiInit

Tick ==
    /\ ticks < MaxTicks
    /\ \E d \in ClockSteps : now' = now + d
    /\ ticks' = ticks + 1
    /\ UNCHANGED << sessions, calls, tasks, sweeps, queryVars, wsVars >>

(* StartGameUseCase.execute *)
CallStartGame(t, u) ==
    /\ Accept(t)
    /\ Reserved < MaxSessions
    /\ SetTask(t, NewTask("start", "get_active", u, 0))
    /\ UNCHANGED << sessions, now, ticks, sweeps, queryVars, wsVars >>

StartGame_get_active(t) ==
    /\ tasks[t].op = "start" /\ tasks[t].pc = "get_active"
    /\ IF get_active_raises(tasks[t].user)
       THEN SetTask(t, Finish(t, "error"))
       ELSE SetTask(t, [tasks[t] EXCEPT !.pc = "check",
                                    !.ent = get_active_by_user(tasks[t].user)])
    /\ UNCHANGED << sessions, now, ticks, calls, sweeps, queryVars, wsVars >>

NewEntity(u) ==
    [id |-> 0, user_id |-> u, start_time |-> now, stop_time |-> None,
     duration_ms |-> None, deviation_ms |-> None, status |-> "active",
     created_at |-> now]

StartGame_check(t) ==
    /\ tasks[t].op = "start" /\ tasks[t].pc = "check"
    /\ LET existing == tasks[t].ent IN
       IF IsSome(existing)
       THEN IF is_expired(Val(existing), now)
            THEN SetTask(t, [tasks[t] EXCEPT !.pc = "update",
                                             !.sid = Val(existing).id,
                                             !.ent = Some(expire_session(Val(existing)))])
            ELSE SetTask(t, Finish(t, "conflict"))
       ELSE SetTask(t, [tasks[t] EXCEPT !.pc = "create",
                                    !.ent = Some(NewEntity(tasks[t].user))])
    /\ UNCHANGED << sessions, now, ticks, calls, sweeps, queryVars, wsVars >>

StartGame_update(t) ==
    /\ tasks[t].op = "start" /\ tasks[t].pc = "update"
    /\ sessions' = update(Val(tasks[t].ent))
    /\ SetTask(t, [tasks[t] EXCEPT !.pc = "new", !.writes = @ + 1])
    /\ UNCHANGED << now, ticks, calls, sweeps, queryVars, wsVars >>

StartGame_new(t) ==
    /\ tasks[t].op = "start" /\ tasks[t].pc = "new"
    /\ SetTask(t, [tasks[t] EXCEPT !.pc = "create",
                               !.ent = Some(NewEntity(tasks[t].user))])
    /\ UNCHANGED << sessions, now, ticks, calls, sweeps, queryVars, wsVars >>

StartGame_create(t) ==
    /\ tasks[t].op = "start" /\ tasks[t].pc = "create"
    /\ sessions' = create(Val(tasks[t].ent))
    /\ SetTask(t, [Finish(t, "ok") EXCEPT !.ent = Some(RowEntity(sessions', Len(sessions) + 1)),
                                          !.writes = @ + 1])
    /\ UNCHANGED << now, ticks, calls, sweeps, queryVars, wsVars >>

(* StopGameUseCase.execute *)
CallStopGame(t, u, sid) ==
    /\ Accept(t)
    /\ SetTask(t, NewTask("stop", "get_by_id", u, sid))
    /\ UNCHANGED << sessions, now, ticks, sweeps, queryVars, wsVars >>

StopGame_get_by_id(t) ==
    /\ tasks[t].op = "stop" /\ tasks[t].pc = "get_by_id"
    /\ SetTask(t, [tasks[t] EXCEPT !.pc = "check", !.ent = get_by_id(tasks[t].sid)])
    /\ UNCHANGED << sessions, now, ticks, calls, sweeps, queryVars, wsVars >>

\* StopGame_check without the ownership check.
StopGame_check_any_user(t) ==
    /\ tasks[t].op = "stop" /\ tasks[t].pc = "check"
    /\ LET session == tasks[t].ent IN
       IF ~IsSome(session)
       THEN SetTask(t, Finish(t, "not_found"))
       ELSE IF ~is_active(Val(session))
       THEN SetTask(t, Finish(t, "not_active"))
       ELSE IF is_expired(Val(session), now)
       THEN SetTask(t, [tasks[t] EXCEPT !.pc = "update_expired",
                                        !.ent = Some(expire_session(Val(session)))])
       ELSE SetTask(t, [tasks[t] EXCEPT !.pc = "complete"])
    /\ UNCHANGED << sessions, now, ticks, calls, sweeps, queryVars, wsVars >>

\* StopGame_check without the lapse check.
StopGame_check_no_lapse(t) ==
    /\ tasks[t].op = "stop" /\ tasks[t].pc = "check"
    /\ LET session == tasks[t].ent IN
       IF ~IsSome(session)
       THEN SetTask(t, Finish(t, "not_found"))
       ELSE IF Val(session).user_id # tasks[t].user
       THEN SetTask(t, Finish(t, "not_owner"))
       ELSE IF ~is_active(Val(session))
       THEN SetTask(t, Finish(t, "not_active"))
       ELSE SetTask(t, [tasks[t] EXCEPT !.pc = "complete"])
    /\ UNCHANGED << sessions, now, ticks, calls, sweeps, queryVars, wsVars >>

\* StopGame_check with the ownership check after the status and lapse
\* checks.
StopGame_check_owner_last(t) ==
    /\ tasks[t].op = "stop" /\ tasks[t].pc = "check"
    /\ LET session == tasks[t].ent IN
       IF ~IsSome(session)
       THEN SetTask(t, Finish(t, "not_found"))
       ELSE IF ~is_active(Val(session))
       THEN SetTask(t, Finish(t, "not_active"))
       ELSE IF is_expired(Val(session), now)
       THEN SetTask(t, [tasks[t] EXCEPT !.pc = "update_expired",
                                        !.ent = Some(expire_session(Val(session)))])
       ELSE IF Val(session).user_id # tasks[t].user
       THEN SetTask(t, Finish(t, "not_owner"))
       ELSE SetTask(t, [tasks[t] EXCEPT !.pc = "complete"])
    /\ UNCHANGED << sessions, now, ticks, calls, sweeps, queryVars, wsVars >>

\* The checks in the order of the source: existence, ownership, status,
\* lapse.  This block reads the clock in is_expired().
StopGame_check(t) ==
    /\ tasks[t].op = "stop" /\ tasks[t].pc = "check"
    /\ LET session == tasks[t].ent IN
       IF ~IsSome(session)
       THEN SetTask(t, Finish(t, "not_found"))
       ELSE IF Val(session).user_id # tasks[t].user
       THEN SetTask(t, Finish(t, "not_owner"))
       ELSE IF ~is_active(Val(session))
       THEN SetTask(t, Finish(t, "not_active"))
       ELSE IF is_expired(Val(session), now)
       THEN SetTask(t, [tasks[t] EXCEPT !.pc = "update_expired",
                                        !.ent = Some(expire_session(Val(session)))])
       ELSE SetTask(t, [tasks[t] EXCEPT !.pc = "complete"])
    /\ UNCHANGED << sessions, now, ticks, calls, sweeps, queryVars, wsVars >>

StopGame_update_expired(t) ==
    /\ tasks[t].op = "stop" /\ tasks[t].pc = "update_expired"
    /\ sessions' = update(Val(tasks[t].ent))
    /\ SetTask(t, [Finish(t, "expired") EXCEPT !.writes = @ + 1])
    /\ UNCHANGED << now, ticks, calls, sweeps, queryVars, wsVars >>

\* stop_time = datetime.utcnow(), a second reading of the clock, and
\* complete_session(stop_time).
StopGame_complete(t) ==
    /\ tasks[t].op = "stop" /\ tasks[t].pc = "complete"
    /\ SetTask(t, [tasks[t] EXCEPT !.pc = "update",
                                   !.ent = Some(complete_session(Val(tasks[t].ent), now))])
    /\ UNCHANGED << sessions, now, ticks, calls, sweeps, queryVars, wsVars >>

StopGame_update(t) ==
    /\ tasks[t].op = "stop" /\ tasks[t].pc = "update"
    /\ sessions' = update(Val(tasks[t].ent))
    /\ SetTask(t, [Finish(t, "ok") EXCEPT !.ent = Some(RowEntity(sessions', tasks[t].sid)),
                                          !.writes = @ + 1])
    /\ UNCHANGED << now, ticks, calls, sweeps, queryVars, wsVars >>

(* GetActiveSessionUseCase.execute *)
CallGetActiveSession(t, u) ==
    /\ Accept(t)
    /\ SetTask(t, NewTask("active", "get_active", u, 0))
    /\ UNCHANGED << sessions, now, ticks, sweeps, queryVars, wsVars >>

GetActive_get_active(t) ==
    /\ tasks[t].op = "active" /\ tasks[t].pc = "get_active"
    /\ IF get_active_raises(tasks[t].user)
       THEN SetTask(t, Finish(t, "error"))
       ELSE SetTask(t, [tasks[t] EXCEPT !.pc = "check",
                                        !.ent = get_active_by_user(tasks[t].user)])
    /\ UNCHANGED << sessions, now, ticks, calls, sweeps, queryVars, wsVars >>

\* GetActive_check that returns the session read without the lapse check.
GetActive_check_no_lapse(t) ==
    /\ tasks[t].op = "active" /\ tasks[t].pc = "check"
    /\ SetTask(t, Finish(t, "ok"))
    /\ UNCHANGED << sessions, now, ticks, calls, sweeps, queryVars, wsVars >>

\* The session is returned as read unless is_expired(), which reads the clock.
GetActive_check(t) ==
    /\ tasks[t].op = "active" /\ tasks[t].pc = "check"
    /\ LET session == tasks[t].ent IN
       IF IsSome(session) /\ is_expired(Val(session), now)
       THEN SetTask(t, [tasks[t] EXCEPT !.pc = "update",
                                        !.ent = Some(expire_session(Val(session)))])
       ELSE SetTask(t, Finish(t, "ok"))
    /\ UNCHANGED << sessions, now, ticks, calls, sweeps, queryVars, wsVars >>

GetActive_update(t) ==
    /\ tasks[t].op = "active" /\ tasks[t].pc = "update"
    /\ sessions' = update(Val(tasks[t].ent))
    /\ SetTask(t, [Finish(t, "ok") EXCEPT !.ent = None, !.writes = @ + 1])
    /\ UNCHANGED << now, ticks, calls, sweeps, queryVars, wsVars >>

(* ExpireOldSessionsUseCase.execute *)
CallExpireOldSessions(t) ==
    /\ Accept(t)
    /\ SetTask(t, [NewTask("sweep", "select", 0, 0) EXCEPT !.cutoff = now - TTLTicks])
    /\ UNCHANGED << sessions, now, ticks, sweeps, queryVars, wsVars >>

Expire_select(t) ==
    /\ tasks[t].op = "sweep" /\ tasks[t].pc = "select"
    /\ SetTask(t, [tasks[t] EXCEPT !.pc = "commit",
                                   !.rows = expire_select(tasks[t].cutoff),
                                   !.count = Cardinality(expire_select(tasks[t].cutoff))])
    /\ UNCHANGED << sessions, now, ticks, calls, sweeps, queryVars, wsVars >>

Expire_commit(t) ==
    /\ tasks[t].op = "sweep" /\ tasks[t].pc = "commit"
    /\ sessions' = expire_commit(tasks[t].rows)
    /\ SetTask(t, [Finish(t, "ok") EXCEPT !.writes = @ + 1])
    /\ sweeps' = Append(sweeps, [cutoff |-> tasks[t].cutoff,
                                 count |-> tasks[t].count,
                                 changed |-> sessions' # sessions])
    /\ UNCHANGED << now, ticks, calls, queryVars, wsVars >>

Steps(t) ==
    \/ StartGame_get_active(t)
    \/ StartGame_check(t)
    \/ StartGame_update(t)
    \/ StartGame_new(t)
    \/ StartGame_create(t)
    \/ StopGame_get_by_id(t)
    \/ StopGame_check(t)
    \/ StopGame_update_expired(t)
    \/ StopGame_complete(t)
    \/ StopGame_update(t)
    \/ GetActive_get_active(t)
    \/ GetActive_check(t)
    \/ GetActive_update(t)
    \/ Expire_select(t)
    \/ Expire_commit(t)

Calls(t) ==
    \/ \E u \in Users : CallStartGame(t, u)
    \/ \E u \in Users, sid \in SessionIds : CallStopGame(t, u, sid)
    \/ \E u \in Users : CallGetActiveSession(t, u)
    \/ CallExpireOldSessions(t)

Next ==
    \/ Tick
    \/ \E t \in Tasks : Calls(t)
    \/ \E t \in Tasks : Steps(t)

Spec == Init /\ [][Next]_vars

\* Requests one at a time: a request is accepted only when no other is in
\* flight.
NoneInFlight == \A t \in Tasks : Free(t)

NextSeq ==
    \/ Tick
    \/ \E t \in Tasks : NoneInFlight /\ Calls(t)
    \/ \E t \in Tasks : Steps(t)

SeqSpec == Init /\ [][NextSeq]_vars

(* ----------------------- WebSocketManager calls ------------------------ *)
Range(q) == {q[i] : i \in DOMAIN q}

SetRegistry(reg) ==
    /\ connections' = reg.connections
    /\ connection_info' = reg.connection_info

SetSender(t, r) == senders' = [senders EXCEPT ![t] = r]

FreeSender(t) == senders[t].pc \in {"idle", "done"}

\* A call is accepted into the lowest free slot; its message is numbered.
WsAccept(t) ==
    /\ FreeSender(t)
    /\ \A t2 \in DOMAIN senders : t2 < t => ~FreeSender(t2)
    /\ wsCalls < MaxWsCalls
    /\ wsCalls' = wsCalls + 1

\* connect: accept() has returned, then both maps are written without an
\* await in between.  accept() raises for a socket whose client is gone.
connect(ws, type, u) ==
    /\ ws \notin failing
    /\ HasInfo(connection_info, ws) \/ Len(connection_info) < MaxInfo
    /\ SetRegistry(register(Reg, ws, type, u))

\* The messages of the other calls whose send_text on socket c is awaited.
Pending(c, msg) ==
    {senders[s2].msg : s2 \in {s2 \in DOMAIN senders :
                                  /\ senders[s2].pc = "sending"
                                  /\ senders[s2].cur = c}} \ {msg}

\* The sockets a pass over a copy still has to send to, when the pass
\* iterates the live set of its type in the place of the copy.
Todo_live(s) ==
    (IF s.type \in DOMAIN connections THEN connections[s.type] ELSE {})
        \ Range(s.attempted)

\* The sockets a pass over a copy still has to send to.
Todo(s) == s.todo

\* The pass ends without the clean-up of the sockets whose send failed.
Finish_pass_without_cleanup(t, s) ==
    /\ SetSender(t, [s EXCEPT !.pc = "done", !.result = "ok", !.cur = 0,
                               !.behind = {}])
    /\ UNCHANGED << connections, connection_info >>

\* The loop has ended: every socket whose send failed is disconnected and
\* the call returns.
Finish_pass(t, s) ==
    /\ SetSender(t, [s EXCEPT !.pc = "done", !.result = "ok", !.cur = 0,
                               !.behind = {}])
    /\ SetRegistry(disconnect_each(Reg, s.disconnected))

\* The loop of send_to_connection_type and broadcast takes the next socket
\* of the copy, in any order, and awaits its send_text; at the end of the
\* copy the pass finishes.
Next_of_copy(t, s) ==
    IF Todo(s) = {} THEN Finish_pass(t, s)
    ELSE /\ \E c \in Todo(s) :
               SetSender(t, [s EXCEPT !.pc = "sending", !.cur = c,
                                      !.behind = Pending(c, s.msg),
                                      !.todo = Todo(s) \ {c},
                                      !.attempted = Append(@, c)])
         /\ UNCHANGED << connections, connection_info >>

\* next() of the iterator over connection_info.items(), then the loop body
\* up to its await: the entries of other users are passed over; the entry
\* of a socket of user u is sent to; an entry found after the iterator
\* has yielded as many as the dict held is an error.
RECURSIVE ScanInfo(_, _, _, _)
ScanInfo(info, pos, left, u) ==
    LET live == {j \in (pos + 1)..Len(info) : info[j].ws # 0} IN
    IF live = {} THEN [kind |-> "end", pos |-> pos, left |-> left, ws |-> 0]
    ELSE IF left = 0 THEN [kind |-> "error", pos |-> pos, left |-> left, ws |-> 0]
    ELSE LET j == CHOOSE j \in live : \A k \in live : j <= k IN
         IF Matches(info[j], u)
         THEN [kind |-> "send", pos |-> j, left |-> left - 1, ws |-> info[j].ws]
         ELSE ScanInfo(info, j, left - 1, u)

\* The loop of send_to_user iterates connection_info itself: when the dict
\* has another size than at the start of the loop, or its keys changed,
\* next() raises RuntimeError, which leaves send_to_user before its
\* clean-up.
Next_of_info(t, s) ==
    IF LenInfo(connection_info) # s.used
    THEN /\ SetSender(t, [s EXCEPT !.pc = "done", !.result = "RuntimeError",
                                    !.cur = 0, !.behind = {}])
         /\ UNCHANGED << connections, connection_info >>
    ELSE LET sc == ScanInfo(connection_info, s.pos, s.left, s.user) IN
         IF sc.kind = "send"
         THEN /\ SetSender(t, [s EXCEPT !.pc = "sending", !.cur = sc.ws,
                                         !.behind = Pending(sc.ws, s.msg),
                                         !.pos = sc.pos, !.left = sc.left,
                                         !.attempted = Append(@, sc.ws)])
              /\ UNCHANGED << connections, connection_info >>
         ELSE IF sc.kind = "end" THEN Finish_pass(t, s)
         ELSE /\ SetSender(t, [s EXCEPT !.pc = "done", !.result = "RuntimeError",
                                         !.cur = 0, !.behind = {}])
              /\ UNCHANGED << connections, connection_info >>

\* send_to_connection_type: returns at once for a type without
\* connections; else copies the set of the type and starts the loop.
BeginSendToConnectionType(t, type) ==
    /\ WsAccept(t)
    /\ LET s0 == [IdleSender EXCEPT !.op = "type", !.type = type,
                                    !.msg = wsCalls + 1]
       IN  IF type \notin DOMAIN connections
           THEN /\ SetSender(t, [s0 EXCEPT !.pc = "done", !.result = "ok"])
                /\ UNCHANGED << connections, connection_info >>
           ELSE Next_of_copy(t, [s0 EXCEPT !.snap = connections[type],
                                           !.todo = connections[type]])

\* send_to_connection_type called on its own.
CallSendToConnectionType(t, type) ==
    /\ BeginSendToConnectionType(t, type)
    /\ UNCHANGED << failing, inbox, received, endpoint, gameVars, queryVars, apiVars >>

\* broadcast: the union of the sets of all types is built, then the loop.
CallBroadcast(t) ==
    /\ WsAccept(t)
    /\ LET all_connections == UNION {connections[ty] : ty \in DOMAIN connections}
           s0 == [IdleSender EXCEPT !.op = "all", !.msg = wsCalls + 1,
                                    !.snap = all_connections,
                                    !.todo = all_connections]
       IN  Next_of_copy(t, s0)
    /\ UNCHANGED << failing, inbox, received, endpoint, gameVars, queryVars, apiVars >>

\* send_to_user: the loop starts on connection_info.items().
CallSendToUser(t, u) ==
    /\ WsAccept(t)
    /\ LET s0 == [IdleSender EXCEPT !.op = "user", !.user = u,
                                    !.msg = wsCalls + 1,
                                    !.snap = {c \in Registered(connection_info) :
                                                 connection_info[InfoIndex(connection_info, c)].user_id = u},
                                    !.used = LenInfo(connection_info),
                                    !.left = LenInfo(connection_info)]
       IN  Next_of_info(t, s0)
    /\ UNCHANGED << failing, inbox, received, endpoint, gameVars, queryVars, apiVars >>

\* The awaited send_text returns or raises; a raise of any Exception puts
\* the socket into disconnected; then the loop goes on to its next await
\* or to its end.  A socket writes its frames in the order of the calls of
\* send_text: a call returns after the calls on the same socket that were
\* made before it.
SendReturn(t) ==
    /\ senders[t].pc = "sending"
    /\ \A s2 \in DOMAIN senders :
          ~(/\ senders[s2].pc = "sending"
            /\ senders[s2].cur = senders[t].cur
            /\ senders[s2].msg \in senders[t].behind)
    /\ LET s == senders[t]
           failed == s.cur \in failing
           s1 == [s EXCEPT !.disconnected = IF failed THEN @ \cup {s.cur} ELSE @]
       IN  /\ inbox' = IF failed THEN inbox
                       ELSE [inbox EXCEPT ![s.cur] = @ \cup {s.msg}]
           /\ received' = IF failed THEN received
                          ELSE [received EXCEPT ![s.cur] = Append(@, s.msg)]
           /\ IF s.op = "user" THEN Next_of_info(t, s1) ELSE Next_of_copy(t, s1)
    /\ UNCHANGED << failing, endpoint, wsCalls, gameVars, queryVars, apiVars >>

\* The client of a registered socket goes away: send_text raises from now.
Fail(ws) ==
    /\ endpoint[ws] = "open" \/ HasInfo(connection_info, ws)
    /\ ws \notin failing
    /\ failing' = failing \cup {ws}
    /\ UNCHANGED << connections, connection_info, inbox, received, senders, endpoint,
                    wsCalls, gameVars, queryVars, apiVars >>

\* websocket_leaderboard_endpoint: a new socket is connected with type
\* "leaderboard" and the user of the query string.
EndpointConnect(ws, u) ==
    /\ endpoint[ws] = "new"
    /\ connect(ws, "leaderboard", u)
    /\ endpoint' = [endpoint EXCEPT ![ws] = "open"]
    /\ UNCHANGED << failing, inbox, received, senders, wsCalls, gameVars, queryVars, apiVars >>

\* websocket_leaderboard_endpoint, its finally: the loop of the endpoint
\* has ended, the socket is disconnected and closed.
EndpointDisconnect(ws) ==
    /\ endpoint[ws] = "open"
    /\ SetRegistry(disconnect(Reg, ws))
    /\ endpoint' = [endpoint EXCEPT ![ws] = "closed"]
    /\ failing' = failing \cup {ws}
    /\ UNCHANGED << inbox, received, senders, wsCalls, gameVars, queryVars, apiVars >>

WsNext ==
    \/ \E ws \in Sockets, u \in Users : EndpointConnect(ws, u)
    \/ \E ws \in Sockets : EndpointDisconnect(ws)
    \/ \E ws \in Sockets : Fail(ws)
    \/ \E t \in Senders : CallSendToConnectionType(t, "leaderboard")
    \/ \E t \in Senders, u \in Users : CallSendToUser(t, u)
    \/ \E t \in Senders : CallBroadcast(t)
    \/ \E t \in Senders : SendReturn(t)

WsSpec == Init /\ [][WsNext]_vars

\* The manager called directly, in any order: connect and disconnect of
\* any socket with any type, and the sends.
ManagerConnect(ws, type, u) ==
    /\ wsCalls < MaxWsCalls
    /\ wsCalls' = wsCalls + 1
    /\ connect(ws, type, u)
    /\ UNCHANGED << failing, inbox, received, senders, endpoint, gameVars, queryVars, apiVars >>

ManagerDisconnect(ws) ==
    /\ wsCalls < MaxWsCalls
    /\ wsCalls' = wsCalls + 1
    /\ SetRegistry(disconnect(Reg, ws))
    /\ UNCHANGED << failing, inbox, received, senders, endpoint, gameVars, queryVars, apiVars >>

ManagerNext ==
    \/ \E ws \in Sockets, type \in ConnectionTypes, u \in Users :
          ManagerConnect(ws, type, u)
    \/ \E ws \in Sockets : ManagerDisconnect(ws)
    \/ \E ws \in Sockets : Fail(ws)
    \/ \E t \in Senders, type \in ConnectionTypes : CallSendToConnectionType(t, type)
    \/ \E t \in Senders, u \in Users : CallSendToUser(t, u)
    \/ \E t \in Senders : CallBroadcast(t)
    \/ \E t \in Senders : SendReturn(t)

ManagerSpec == Init /\ [][ManagerNext]_vars

\* The manager called by one caller at a time, with sockets as the server
\* hands them out: a socket is accepted once, under either type and with
\* or without a user; connect, disconnect and subscribe are called while
\* no send is in flight, and the sends are those of send_to_user.
Owners == {0} \cup Users

RegistryIdle == \A t \in Senders : FreeSender(t)

RegistryConnect(ws, type, u) ==
    /\ RegistryIdle
    /\ endpoint[ws] = "new"
    /\ connect(ws, type, u)
    /\ endpoint' = [endpoint EXCEPT ![ws] = "open"]
    /\ UNCHANGED << failing, inbox, received, senders, wsCalls, gameVars, queryVars, apiVars >>

RegistryDisconnect(ws) ==
    /\ RegistryIdle
    /\ endpoint[ws] = "open"
    /\ SetRegistry(disconnect(Reg, ws))
    /\ endpoint' = [endpoint EXCEPT ![ws] = "closed"]
    /\ UNCHANGED << failing, inbox, received, senders, wsCalls, gameVars, queryVars, apiVars >>

RegistrySubscribe(ws, target) ==
    /\ RegistryIdle
    /\ endpoint[ws] = "open"
    /\ HasInfo(connection_info, ws)
    /\ connection_info[InfoIndex(connection_info, ws)].subscribed_user_id = 0
    /\ SetRegistry(subscribe(Reg, ws, target))
    /\ UNCHANGED << failing, inbox, received, senders, endpoint, wsCalls, gameVars,
                    queryVars, apiVars >>

RegistryNext ==
    \/ \E ws \in Sockets, type \in ConnectionTypes, u \in Owners :
          RegistryConnect(ws, type, u)
    \/ \E ws \in Sockets : RegistryDisconnect(ws)
    \/ \E ws \in Sockets, target \in Users : RegistrySubscribe(ws, target)
    \/ \E ws \in Sockets : Fail(ws)
    \/ \E t \in Senders, u \in Users : CallSendToUser(t, u)
    \/ \E t \in Senders : SendReturn(t)

RegistrySpec == Init /\ [][RegistryNext]_vars

(* ------------------------------ queries ------------------------------- *)
\* The stores the queries are asked on: up to MaxRows sessions of any user
\* and status, created at one of two times in the order of their ids; a
\* completed session has one of three durations.
QueryDurations == {target_time_ms, target_time_ms + 1, target_time_ms + 4}

QueryParams ==
    {p \in [u : Users, st : SessionStatus, d : QueryDurations, c : 0..1] :
        p.st # "completed" => p.d = target_time_ms}

QueryRow(p) ==
    [user_id |-> p.u,
     start_time |-> p.c * TargetTicks,
     stop_time |-> IF p.st = "completed"
                   THEN Some(p.c * TargetTicks + p.d * SubMs) ELSE None,
     duration_ms |-> IF p.st = "completed" THEN Some(p.d) ELSE None,
     deviation_ms |-> IF p.st = "completed"
                      THEN Some(Abs(p.d - target_time_ms)) ELSE None,
     status |-> p.st,
     created_at |-> p.c * TargetTicks]

QueryTables ==
    {[i \in DOMAIN t |-> QueryRow(t[i])] :
        t \in {t \in UNION {[1..n -> QueryParams] : n \in 0..MaxRows} :
                  \A i, j \in DOMAIN t : i < j => t[i].c <= t[j].c}}

QueryInit ==
    /\ sessions \in QueryTables
    /\ now = 2 * TTLTicks
    /\ ticks = 0
    /\ calls = 0
    /\ tasks = [t \in Tasks |-> IdleTask]
    /\ sweeps = << >>
    /\ reply = NoReply
    /\ WsInit
    /\ ApiInit

\* GetUserGameHistoryUseCase.execute: one statement on the store.
GetUserGameHistory(u, limit) ==
    /\ \E rows \in get_by_user(sessions, u, limit) :
          reply' = [op |-> "history", user |-> u, limit |-> limit, rows |-> rows]
    /\ UNCHANGED << gameVars, wsVars, score >>

\* GetLeaderboardUseCase.execute: one statement on the store.
GetLeaderboard(limit) ==
    /\ \E rows \in get_leaderboard(sessions, limit) :
          reply' = [op |-> "leaderboard", user |-> 0, limit |-> limit, rows |-> rows]
    /\ UNCHANGED << gameVars, wsVars, score >>

\* The history limit is any integer of the request; the leaderboard limit
\* is validated to be at least 1.
QueryNext ==
    \/ \E u \in Users, limit \in -1..MaxLimit : GetUserGameHistory(u, limit)
    \/ \E limit \in 1..MaxLimit : GetLeaderboard(limit)

QuerySpec == QueryInit /\ [][QueryNext]_vars

(* --------------------------- stop_game handler ------------------------- *)
\* user_sessions = await game_repository.get_by_user(current_user.id,
\* limit=100): the limit of the personal-best scan.
personal_best_scan == 100

\* The session StopGameUseCase.execute returned to the handler of slot t.
Session(t) == Val(tasks[t].ent)

\* The await of the handler of slot t has returned: it stands at pc, or it
\* stood at waitpc for a broadcast that has returned.
Returned(t) ==
    \E s \in DOMAIN senders :
        senders[s].pc = "done" /\ senders[s].msg = stops[t].call

Resumed(t, pc, waitpc) ==
    \/ stops[t].pc = pc
    \/ stops[t].pc = waitpc /\ Returned(t)

\* ws state that a step of the handler without a broadcast leaves alone.
NoSend ==
    UNCHANGED << connections, connection_info, senders, wsCalls, payloads >>

\* The handler answers 500 when a statement of the notifications raised.
Respond_unless_raised(t, r) ==
    IF r.raised # {}
    THEN [r EXCEPT !.pc = "done", !.result = "500"]
    ELSE [r EXCEPT !.pc = "done", !.result = "200",
                   !.body = [session_id |-> Session(t).id,
                             duration_ms |-> Session(t).duration_ms,
                             deviation_ms |-> Session(t).deviation_ms]]


\* The handler returns the StopGameResponse built from the session.
Respond(t, r) ==
    [r EXCEPT !.pc = "done", !.result = "200",
              !.body = [session_id |-> Session(t).id,
                        duration_ms |-> Session(t).duration_ms,
                        deviation_ms |-> Session(t).deviation_ms]]

\* The message of notify_leaderboard_update without the triggering user.
LeaderboardUpdate_untriggered(msg, u, lb) ==
    [msg |-> msg, type |-> "leaderboard_update", leaderboard |-> lb,
     total_entries |-> Len(lb), triggered_by_user |-> 0, deviation_ms |-> 0]


\* The message of notify_leaderboard_update and of notify_new_high_score.
LeaderboardUpdate(msg, u, lb) ==
    [msg |-> msg, type |-> "leaderboard_update", leaderboard |-> lb,
     total_entries |-> Len(lb), triggered_by_user |-> u, deviation_ms |-> 0]

NewHighScore(msg, u, deviation) ==
    [msg |-> msg, type |-> "new_high_score", leaderboard |-> << >>,
     total_entries |-> 0, triggered_by_user |-> u, deviation_ms |-> deviation]

\* The message is handed to send_to_connection_type("leaderboard", ...),
\* which runs up to its first await or returns at once; the handler of
\* slot t goes to pc when the call has returned and to waitpc otherwise.
Broadcast(t, r, message, pc, waitpc) ==
    \E s \in DOMAIN senders :
        /\ BeginSendToConnectionType(s, "leaderboard")
        /\ payloads' = Append(payloads, message)
        /\ stops' = [stops EXCEPT ![t] =
               IF senders'[s].pc = "done"
               THEN (IF pc = "done" THEN Respond(t, r) ELSE [r EXCEPT !.pc = pc])
               ELSE [r EXCEPT !.pc = waitpc, !.call = message.msg]]

\* A stop request is accepted: the handler calls StopGameUseCase.execute.
StopRequest(t, u, sid) ==
    /\ Accept(t)
    /\ SetTask(t, NewTask("stop", "get_by_id", u, sid))
    /\ stops' = [stops EXCEPT ![t] = [IdleStop EXCEPT !.pc = "execute"]]
    /\ UNCHANGED << sessions, now, ticks, sweeps, queryVars, connections,
                    connection_info, failing, inbox, received, senders, endpoint,
                    wsCalls, payloads, handlers >>

\* The handler notifies the leaderboard also when execute raised.
Stop_failed_notifying(t) ==
    /\ stops[t].pc = "execute"
    /\ tasks[t].op = "stop" /\ tasks[t].pc = "done" /\ tasks[t].result # "ok"
    /\ stops' = [stops EXCEPT ![t] = [@ EXCEPT !.pc = "done", !.result = "400",
                                               !.notified = @ + 1]]
    /\ NoSend
    /\ UNCHANGED << gameVars, queryVars, failing, inbox, received, endpoint, handlers >>


\* execute raised ValueError: the handler answers 400 and notifies nobody.
Stop_failed(t) ==
    /\ stops[t].pc = "execute"
    /\ tasks[t].op = "stop" /\ tasks[t].pc = "done" /\ tasks[t].result # "ok"
    /\ stops' = [stops EXCEPT ![t] = [@ EXCEPT !.pc = "done", !.result = "400"]]
    /\ NoSend
    /\ UNCHANGED << gameVars, queryVars, failing, inbox, received, endpoint, handlers >>

\* execute returned a session: when it is completed and has a deviation,
\* notify_leaderboard_update(current_user.id) is called.  Its leaderboard
\* query raises, which the service logs, or returns the leaderboard, and
\* then the message is built and broadcast to the type "leaderboard".
Stop_notify_leaderboard_update(t) ==
    /\ stops[t].pc = "execute"
    /\ tasks[t].op = "stop" /\ tasks[t].pc = "done" /\ tasks[t].result = "ok"
    /\ IF ~(is_completed(Session(t)) /\ IsSome(Session(t).deviation_ms))
       THEN /\ stops' = [stops EXCEPT ![t] = Respond(t, @)]
            /\ NoSend
       ELSE LET r == [stops[t] EXCEPT !.notified = @ + 1,
                                      !.notify_user = tasks[t].user]
            IN  \/ /\ stops' = [stops EXCEPT ![t] =
                          [r EXCEPT !.pc = "history",
                                    !.raised = @ \cup {"leaderboard_update"}]]
                   /\ NoSend
                \/ \E lb \in get_leaderboard(sessions, leaderboard_top_count) :
                      Broadcast(t, [r EXCEPT !.lb = lb],
                                LeaderboardUpdate(wsCalls + 1, tasks[t].user, lb),
                                "history", "update_wait")
    /\ UNCHANGED << gameVars, queryVars, failing, inbox, received, endpoint, handlers >>

\* The personal-best check: the last sessions of the user are read, and
\* when the deviation of the session is the minimum of the completed ones
\* the handler goes on to the global check.  A raise of the query ends the
\* notifications.
Stop_personal_best(t) ==
    /\ Resumed(t, "history", "update_wait")
    /\ \/ stops' = [stops EXCEPT ![t] =
             Respond(t, [@ EXCEPT !.raised = @ \cup {"history"}])]
       \/ \E user_sessions \in get_by_user(sessions, tasks[t].user,
                                           personal_best_scan) :
             LET completed_sessions ==
                     {k \in DOMAIN user_sessions :
                         /\ is_completed(user_sessions[k])
                         /\ IsSome(user_sessions[k].deviation_ms)}
                 valid_deviations ==
                     {Val(user_sessions[k].deviation_ms) : k \in completed_sessions}
             IN  IF /\ completed_sessions # {}
                    /\ \A d \in valid_deviations :
                          Val(Session(t).deviation_ms) <= d
                    /\ Val(Session(t).deviation_ms) \in valid_deviations
                 THEN stops' = [stops EXCEPT ![t] = [@ EXCEPT !.pc = "global"]]
                 ELSE stops' = [stops EXCEPT ![t] = Respond(t, @)]
    /\ NoSend
    /\ UNCHANGED << gameVars, queryVars, failing, inbox, received, endpoint, handlers >>

\* The global check: the top entry of the leaderboard is read and, when
\* the deviation of the session is at most its best_deviation_ms,
\* notify_new_high_score is called, which broadcasts its message.
Stop_high_score(t) ==
    /\ stops[t].pc = "global"
    /\ \/ /\ stops' = [stops EXCEPT ![t] =
                Respond(t, [@ EXCEPT !.raised = @ \cup {"leaderboard"}])]
          /\ NoSend
       \/ \E leaderboard_data \in get_leaderboard(sessions, 1) :
             IF /\ leaderboard_data # << >>
                /\ Val(Session(t).deviation_ms)
                      <= leaderboard_data[1].best_deviation_ms
             THEN Broadcast(t, [stops[t] EXCEPT !.high_score = @ + 1],
                            NewHighScore(wsCalls + 1, tasks[t].user,
                                         Val(Session(t).deviation_ms)),
                            "done", "high_score_wait")
             ELSE /\ stops' = [stops EXCEPT ![t] = Respond(t, @)]
                  /\ NoSend
    /\ UNCHANGED << gameVars, queryVars, failing, inbox, received, endpoint, handlers >>

\* notify_new_high_score has returned: the handler builds its response.
Stop_respond(t) ==
    /\ stops[t].pc = "high_score_wait" /\ Returned(t)
    /\ stops' = [stops EXCEPT ![t] = Respond(t, @)]
    /\ NoSend
    /\ UNCHANGED << gameVars, queryVars, failing, inbox, received, endpoint, handlers >>

\* The stores a stop request is served on: up to MaxRows sessions of any
\* user, completed with one of three durations, active and started one of
\* these durations ago, active and lapsed, or expired.  No statement of
\* the handler reads the order of the ids, so the rows are drawn in one
\* order of their kinds.
StopNow == 2 * TTLTicks

StopKinds == {"completed", "active", "lapsed", "expired"}

StopParams ==
    {p \in [u : Users, st : StopKinds, d : QueryDurations] :
        p.st \in {"lapsed", "expired"} => p.d = target_time_ms}

StopRow(p) ==
    LET start == CASE p.st = "active" -> StopNow - p.d * SubMs
                   [] p.st = "completed" -> StopNow - TTLTicks
                   [] OTHER -> StopNow - TTLTicks - 1
    IN  [user_id |-> p.u,
         start_time |-> start,
         stop_time |-> IF p.st = "completed" THEN Some(start + p.d * SubMs) ELSE None,
         duration_ms |-> IF p.st = "completed" THEN Some(p.d) ELSE None,
         deviation_ms |-> IF p.st = "completed"
                          THEN Some(Abs(p.d - target_time_ms)) ELSE None,
         status |-> CASE p.st = "completed" -> "completed"
                      [] p.st = "expired" -> "expired"
                      [] OTHER -> "active",
         created_at |-> start]

KindOrder(p) ==
    (p.u * 4 + (CASE p.st = "completed" -> 0 [] p.st = "active" -> 1
                  [] p.st = "lapsed" -> 2 [] OTHER -> 3)) * (target_time_ms + 10)
        + (p.d - target_time_ms)

StopTables ==
    {[i \in DOMAIN t |-> StopRow(t[i])] :
        t \in {t \in UNION {[1..n -> StopParams] : n \in 0..MaxRows} :
                  \A i, j \in DOMAIN t : i < j => KindOrder(t[i]) <= KindOrder(t[j])}}

StopInit ==
    /\ sessions \in StopTables
    /\ now = StopNow
    /\ ticks = 0
    /\ calls = 0
    /\ tasks = [t \in Tasks |-> IdleTask]
    /\ sweeps = << >>
    /\ reply = NoReply
    /\ WsInit
    /\ ApiInit

\* The clients that listen: a socket connects, without a user, before the
\* stop requests are made; a client may go away at any time.
StopListen(ws) ==
    /\ calls = 0
    /\ EndpointConnect(ws, 0)

\* The stop requests are made one at a time.
StopCall(t, u, sid) ==
    /\ calls < MaxStops
    /\ NoneInFlight
    /\ \A t2 \in Tasks : stops[t2].pc \in {"idle", "done"}
    /\ StopRequest(t, u, sid)

StopNext ==
    \/ \E ws \in Sockets : StopListen(ws)
    \/ \E ws \in Sockets : Fail(ws)
    \/ \E t \in Tasks, u \in Users, sid \in 1..(MaxRows + 1) : StopCall(t, u, sid)
    \/ \E t \in Tasks : StopGame_get_by_id(t)
    \/ \E t \in Tasks : StopGame_check(t)
    \/ \E t \in Tasks : StopGame_update_expired(t)
    \/ \E t \in Tasks : StopGame_complete(t)
    \/ \E t \in Tasks : StopGame_update(t)
    \/ \E t \in Tasks : Stop_failed(t)
    \/ \E t \in Tasks : Stop_notify_leaderboard_update(t)
    \/ \E t \in Tasks : Stop_personal_best(t)
    \/ \E t \in Tasks : Stop_high_score(t)
    \/ \E t \in Tasks : Stop_respond(t)
    \/ \E s \in Senders : SendReturn(s)

StopSpec == StopInit /\ [][StopNext]_vars

(* ---------------------- concurrent stop requests ----------------------- *)
\* The stores two stop requests are served on at once: an active session
\* of each user, started one of the three durations ago.
RaceTables ==
    {<< StopRow([u |-> 1, st |-> "active", d |-> d1]),
        StopRow([u |-> 2, st |-> "active", d |-> d2]) >> :
        d1 \in QueryDurations, d2 \in QueryDurations}

\* Every request has a broadcast of its own in flight: send_to_* calls are
\* coroutines of the request that makes them.
RaceInit ==
    /\ sessions \in RaceTables
    /\ now = StopNow
    /\ ticks = 0
    /\ calls = 0
    /\ tasks = [t \in Tasks |-> IdleTask]
    /\ sweeps = << >>
    /\ reply = NoReply
    /\ connections = EmptyMap
    /\ connection_info = << >>
    /\ failing = {}
    /\ inbox = [s \in Sockets |-> {}]
    /\ received = [s \in Sockets |-> << >>]
    /\ senders = [t \in Tasks |-> IdleSender]
    /\ endpoint = [s \in Sockets |-> "new"]
    /\ wsCalls = 0
    /\ ApiInit

\* A stop request is accepted while another may be in flight.
RaceCall(t, u, sid) ==
    /\ calls < MaxTasks
    /\ StopRequest(t, u, sid)

RaceNext ==
    \/ \E ws \in Sockets : StopListen(ws)
    \/ \E t \in Tasks, u \in Users, sid \in 1..MaxTasks : RaceCall(t, u, sid)
    \/ \E t \in Tasks : StopGame_get_by_id(t)
    \/ \E t \in Tasks : StopGame_check(t)
    \/ \E t \in Tasks : StopGame_complete(t)
    \/ \E t \in Tasks : StopGame_update(t)
    \/ \E t \in Tasks : Stop_failed(t)
    \/ \E t \in Tasks : Stop_notify_leaderboard_update(t)
    \/ \E t \in Tasks : Stop_personal_best(t)
    \/ \E t \in Tasks : Stop_high_score(t)
    \/ \E t \in Tasks : Stop_respond(t)
    \/ \E s \in Tasks : SendReturn(s)

RaceSpec == RaceInit /\ [][RaceNext]_vars


(* ------------------- websocket_leaderboard_endpoint -------------------- *)
\* The text frames a client sends: one that is not JSON; objects with the
\* types the handler knows, with subscribe_user_updates once with and
\* once without data.user_id; an object with another type, an object
\* without a type, and JSON that is not an object.
Frames ==
    {"invalid_json", "ping", "request_leaderboard", "subscribe_user_updates",
     "subscribe_without_user", "unknown_type", "missing_type", "not_an_object"}

\* The reply to a frame that is not JSON is the error of the handler.
FirstReply_generic_error(frame) ==
    CASE frame = "invalid_json" -> "error: Error processing message"
      [] frame = "ping" -> "pong"
      [] frame = "subscribe_user_updates" -> "subscription_confirmed"
      [] frame = "subscribe_without_user" -> ""
      [] frame = "unknown_type" -> "error: Unknown message type"
      [] frame = "missing_type" -> "error: Unknown message type"
      [] frame = "not_an_object" -> "error: Error processing message"
      [] OTHER -> ""


\* The reply handle_client_message sends first for a frame that is JSON,
\* "" when it sends none, and the reply of the endpoint for one that is
\* not JSON.
FirstReply(frame) ==
    CASE frame = "invalid_json" -> "error: Invalid JSON format"
      [] frame = "ping" -> "pong"
      [] frame = "subscribe_user_updates" -> "subscription_confirmed"
      [] frame = "subscribe_without_user" -> ""
      [] frame = "unknown_type" -> "error: Unknown message type"
      [] frame = "missing_type" -> "error: Unknown message type"
      [] frame = "not_an_object" -> "error: Error processing message"
      [] OTHER -> ""

\* The send of the first reply is inside the try of handle_client_message.
Guarded(frame) ==
    frame \in {"ping", "subscribe_user_updates", "unknown_type", "missing_type"}

SetHandler(ws, h) == handlers' = [handlers EXCEPT ![ws] = h]

\* The endpoint ends without disconnecting the socket from the manager.
Terminate_without_disconnect(ws) ==
    /\ SetHandler(ws, [handlers[ws] EXCEPT !.pc = "closed", !.reply = "",
                                           !.reply_user = 0])
    /\ UNCHANGED << connections, connection_info >>
    /\ endpoint' = [endpoint EXCEPT ![ws] = "closed"]
    /\ failing' = failing \cup {ws}

\* The exception has reached the except clauses of the endpoint: it is
\* logged, finally disconnects the socket from the manager, and the
\* coroutine ends, which closes the socket.
Terminate(ws) ==
    /\ SetHandler(ws, [handlers[ws] EXCEPT !.pc = "closed", !.reply = "",
                                           !.reply_user = 0])
    /\ SetRegistry(disconnect(Reg, ws))
    /\ endpoint' = [endpoint EXCEPT ![ws] = "closed"]
    /\ failing' = failing \cup {ws}

\* The stop requests that await a query of the database, each with the
\* place it awaits at: the engine has one connection (StaticPool), which
\* runs the queries in the order it is given them.
AtQuery(t) ==
    \/ tasks[t].op = "stop" /\ tasks[t].pc \in {"get_by_id", "update"}
    \/ /\ tasks[t].op = "stop" /\ tasks[t].pc = "done" /\ tasks[t].result = "ok"
       /\ stops[t].pc = "execute"
    \/ stops[t].pc \in {"history", "global"}
    \/ stops[t].pc = "update_wait" /\ Returned(t)

Place(t) == << t, tasks[t].pc, stops[t].pc, calls >>

Awaiting == {Place(t) : t \in {t \in Tasks : AtQuery(t)}}

\* connect: accept() returns and the socket is registered with the type
\* "leaderboard"; then send_connection_status awaits its leaderboard query.
Handler_connect(ws, u) ==
    /\ handlers[ws].pc = "new"
    /\ connect(ws, "leaderboard", u)
    /\ SetHandler(ws, [handlers[ws] EXCEPT !.pc = "status_query", !.user = u,
                                           !.ahead = Awaiting])
    /\ endpoint' = [endpoint EXCEPT ![ws] = "open"]
    /\ UNCHANGED << failing, inbox, received, senders, wsCalls, stops, payloads,
                    gameVars, queryVars >>

\* accept() raises: the client went away before it was accepted.
Handler_accept_raises(ws) ==
    /\ handlers[ws].pc = "new"
    /\ Terminate(ws)
    /\ UNCHANGED << inbox, received, senders, wsCalls, stops, payloads, gameVars,
                    queryVars >>

\* send_connection_status, its leaderboard query: a raise is logged and
\* the function returns; else the message is built, with the count of the
\* type "leaderboard", and its send_text is awaited.
Handler_status_query(ws) ==
    /\ handlers[ws].pc = "status_query"
    /\ \/ SetHandler(ws, [handlers[ws] EXCEPT !.pc = "receive", !.ahead = {}])
       \/ \E lb \in get_leaderboard(sessions, leaderboard_top_count) :
             SetHandler(ws, [handlers[ws] EXCEPT !.pc = "status_send",
                                                 !.ahead = {},
                                                 !.reply = "connection_established"])
    /\ UNCHANGED << connections, connection_info, failing, inbox, received, senders,
                    endpoint, wsCalls, stops, payloads, gameVars, queryVars >>

\* send_connection_status, its send_text: a raise is logged and the
\* function returns; the endpoint goes on to receive_text.
Handler_status_sent(ws) ==
    /\ handlers[ws].pc = "status_send"
    /\ SetHandler(ws, [handlers[ws] EXCEPT
           !.pc = "receive", !.reply = "",
           !.replies = IF ws \in failing THEN @ ELSE Append(@, handlers[ws].reply)])
    /\ UNCHANGED << connections, connection_info, failing, inbox, received, senders,
                    endpoint, wsCalls, stops, payloads, gameVars, queryVars >>

\* receive_text returns a frame: json.loads, then handle_client_message up
\* to its first await.  subscribe_user_updates with a user id writes the
\* subscription into the metadata; without one nothing is sent and the
\* endpoint is back at receive_text.
Handler_receive(ws, frame, target) ==
    /\ handlers[ws].pc = "receive"
    /\ ws \notin failing
    /\ handlers[ws].frames < MaxFrames
    /\ LET h == [handlers[ws] EXCEPT
                    !.frame = frame, !.frames = @ + 1, !.replies = << >>,
                    !.reply_user = IF frame = "subscribe_user_updates"
                                   THEN target ELSE 0]
       IN  /\ SetHandler(ws,
                 IF frame = "request_leaderboard"
                 THEN [h EXCEPT !.pc = "status_query", !.ahead = Awaiting]
                 ELSE IF FirstReply(frame) = ""
                 THEN [h EXCEPT !.pc = "receive"]
                 ELSE [h EXCEPT !.pc = "reply_send", !.reply = FirstReply(frame)])
           /\ IF frame = "subscribe_user_updates"
              THEN SetRegistry(subscribe(Reg, ws, target))
              ELSE UNCHANGED << connections, connection_info >>
    /\ UNCHANGED << failing, inbox, received, senders, endpoint, wsCalls, stops,
                    payloads, gameVars, queryVars >>

\* receive_text raises WebSocketDisconnect: the client has gone.
Handler_disconnected(ws) ==
    /\ handlers[ws].pc = "receive"
    /\ Terminate(ws)
    /\ UNCHANGED << inbox, received, senders, wsCalls, stops, payloads, gameVars,
                    queryVars >>

\* The awaited send_text of a reply returns, and the endpoint is back at
\* receive_text; or it raises: inside the try of handle_client_message the
\* handler then sends the error "Error processing message", elsewhere the
\* exception ends the endpoint.
Handler_reply_sent(ws) ==
    /\ handlers[ws].pc \in {"reply_send", "error_send"}
    /\ IF ws \notin failing
       THEN /\ SetHandler(ws, [handlers[ws] EXCEPT
                   !.pc = "receive", !.reply = "",
                   !.replies = Append(@, handlers[ws].reply)])
            /\ UNCHANGED << connections, connection_info, failing, endpoint >>
       ELSE IF handlers[ws].pc = "reply_send" /\ Guarded(handlers[ws].frame)
       THEN /\ SetHandler(ws, [handlers[ws] EXCEPT
                   !.pc = "error_send", !.reply_user = 0,
                   !.reply = "error: Error processing message"])
            /\ UNCHANGED << connections, connection_info, failing, endpoint >>
       ELSE Terminate(ws)
    /\ UNCHANGED << inbox, received, senders, wsCalls, stops, payloads, gameVars,
                    queryVars >>

\* The connection of a client breaks while its endpoint runs.
Handler_client_fails(ws) ==
    /\ handlers[ws].pc \notin {"new", "closed"}
    /\ Fail(ws)

HandlerNext ==
    \/ \E ws \in Sockets, u \in Owners : Handler_connect(ws, u)
    \/ \E ws \in Sockets : Handler_accept_raises(ws)
    \/ \E ws \in Sockets : Handler_status_query(ws)
    \/ \E ws \in Sockets : Handler_status_sent(ws)
    \/ \E ws \in Sockets, frame \in Frames, target \in Users :
          Handler_receive(ws, frame, target)
    \/ \E ws \in Sockets : Handler_disconnected(ws)
    \/ \E ws \in Sockets : Handler_reply_sent(ws)
    \/ \E ws \in Sockets : Handler_client_fails(ws)

HandlerSpec == Init /\ [][HandlerNext]_vars

(* ------------------ a client joins while a stop runs ------------------- *)
\* The store has an active session of each user; no socket is connected.
JoinInit ==
    /\ sessions \in RaceTables
    /\ now = StopNow
    /\ ticks = 0
    /\ calls = 0
    /\ tasks = [t \in Tasks |-> IdleTask]
    /\ sweeps = << >>
    /\ reply = NoReply
    /\ WsInit
    /\ ApiInit

\* The query a stop request awaits returns before the leaderboard query
\* of an endpoint only when the database had been given it before.
QueryTurn(t) ==
    \A ws \in Sockets :
        handlers[ws].pc = "status_query" => Place(t) \in handlers[ws].ahead

Join_get_by_id(t) == QueryTurn(t) /\ StopGame_get_by_id(t)

Join_update(t) == QueryTurn(t) /\ StopGame_update(t)

Join_notify_leaderboard_update(t) ==
    QueryTurn(t) /\ Stop_notify_leaderboard_update(t)

Join_personal_best(t) == QueryTurn(t) /\ Stop_personal_best(t)

Join_high_score(t) == QueryTurn(t) /\ Stop_high_score(t)

\* The endpoint of a client runs up to its receive loop while stop
\* requests, one at a time, are served and send their notifications.
JoinNext ==
    \/ \E ws \in Sockets, u \in Owners : Handler_connect(ws, u)
    \/ \E ws \in Sockets : Handler_status_query(ws)
    \/ \E ws \in Sockets : Handler_status_sent(ws)
    \/ \E t \in Tasks, u \in Users, sid \in 1..MaxTasks : StopCall(t, u, sid)
    \/ \E t \in Tasks : Join_get_by_id(t)
    \/ \E t \in Tasks : StopGame_check(t)
    \/ \E t \in Tasks : StopGame_complete(t)
    \/ \E t \in Tasks : Join_update(t)
    \/ \E t \in Tasks : Stop_failed(t)
    \/ \E t \in Tasks : Join_notify_leaderboard_update(t)
    \/ \E t \in Tasks : Join_personal_best(t)
    \/ \E t \in Tasks : Join_high_score(t)
    \/ \E t \in Tasks : Stop_respond(t)
    \/ \E s \in Senders : SendReturn(s)

JoinSpec == JoinInit /\ [][JoinNext]_vars

(* ---------------------- grade and accuracy score ----------------------- *)
\* The deviations that are graded: every one up to DeviationBound, which
\* is past the last boundary of the grades, and those around the target.
Deviations ==
    (0..DeviationBound)
        \cup {target_time_ms \div 2, target_time_ms - 1, target_time_ms,
              target_time_ms + 1, 2 * target_time_ms}

\* Deviation.is_perfect, is_excellent, is_good
is_perfect(milliseconds) == milliseconds = 0
is_excellent(milliseconds) == milliseconds < 100
is_good(milliseconds) == milliseconds < 500

\* get_grade whose comparisons include the boundary.
get_grade_inclusive(milliseconds) ==
    IF is_perfect(milliseconds) THEN "A+"
    ELSE IF milliseconds <= 100 THEN "A"
    ELSE IF milliseconds <= 500 THEN "B"
    ELSE IF milliseconds <= 1000 THEN "C"
    ELSE IF milliseconds <= 2000 THEN "D"
    ELSE "F"

\* Deviation.get_grade
get_grade(milliseconds) ==
    IF is_perfect(milliseconds) THEN "A+"
    ELSE IF is_excellent(milliseconds) THEN "A"
    ELSE IF is_good(milliseconds) THEN "B"
    ELSE IF milliseconds < 1000 THEN "C"
    ELSE IF milliseconds < 2000 THEN "D"
    ELSE "F"

\* get_accuracy_score without the max(0, ...).
get_accuracy_score_unclamped(deviation_ms) ==
    IF deviation_ms = None THEN 0
    ELSE RoundAvg(100 * (target_time_ms - Val(deviation_ms)), target_time_ms)

\* GameSessionEntity.get_accuracy_score, in hundredths: 0.0 for a session
\* without deviation, else round(max(0, 100 * (1 - deviation_ms /
\* max_deviation)), 2) with max_deviation the target time.
get_accuracy_score(deviation_ms) ==
    IF deviation_ms = None THEN 0
    ELSE LET max_deviation == target_time_ms
             d == Val(deviation_ms)
         IN  IF d > max_deviation THEN 0
             ELSE RoundAvg(100 * (max_deviation - d), max_deviation)

\* The values graded: a session without deviation, or one with any of the
\* deviations.
ScoreInit ==
    /\ sessions = << >>
    /\ now = 0
    /\ ticks = 0
    /\ calls = 0
    /\ tasks = [t \in Tasks |-> IdleTask]
    /\ sweeps = << >>
    /\ reply = NoReply
    /\ WsInit
    /\ stops = [t \in Tasks |-> IdleStop]
    /\ payloads = << >>
    /\ handlers = [s \in Sockets |-> IdleHandler]
    /\ \E o \in {None} \cup {Some(d) : d \in Deviations} :
          score = [NoScore EXCEPT !.deviation_ms = o]

\* Deviation(deviation_ms).get_grade()
Grade ==
    /\ IsSome(score.deviation_ms)
    /\ score.grade = ""
    /\ score' = [score EXCEPT !.grade = get_grade(Val(score.deviation_ms))]
    /\ UNCHANGED << gameVars, reply, wsVars >>

\* session.get_accuracy_score()
Accuracy ==
    /\ score.accuracy = None
    /\ score' = [score EXCEPT !.accuracy = Some(get_accuracy_score(score.deviation_ms))]
    /\ UNCHANGED << gameVars, reply, wsVars >>

ScoreNext == Grade \/ Accuracy

ScoreSpec == ScoreInit /\ [][ScoreNext]_vars


(* ------------------------------- claims ------------------------------- *)
Rows == 1..Len(sessions)

\* C1: in every reachable state each user has at most one session with
\* status active, also when two StartGame requests of the same user
\* interleave between the read of the active session and the insert.
C1_AtMostOneActive ==
    \A u \in Users : Cardinality(ActiveIdsOf(u)) <= 1

\* C2: the status of a stored session never changes once it is completed
\* or expired, whatever the interleaving of the requests.
C2_StatusMonotone ==
    [][\A i \in Rows :
          sessions[i].status \in {"completed", "expired"}
              => sessions'[i].status = sessions[i].status]_vars

\* C3: stop_time, duration_ms and deviation_ms are assigned once: a stored
\* stop_time, duration_ms or deviation_ms is never overwritten by a later
\* write, and at most one StopGame request completes a given session.
C3_SetOnce ==
    [][/\ \A i \in Rows :
             IsSome(sessions[i].stop_time)
                 => /\ sessions'[i].stop_time = sessions[i].stop_time
                    /\ sessions'[i].duration_ms = sessions[i].duration_ms
                    /\ sessions'[i].deviation_ms = sessions[i].deviation_ms
       /\ \A t1, t2 \in Tasks :
             (/\ t1 # t2
              /\ tasks'[t1].op = "stop" /\ tasks'[t1].result = "ok"
              /\ tasks'[t2].op = "stop" /\ tasks'[t2].result = "ok")
                 => tasks'[t1].sid # tasks'[t2].sid]_vars

\* C4: a stored session with status active has no stop_time, duration_ms
\* or deviation_ms, and one with status completed has all three.
C4_FieldsMatchStatus ==
    \A i \in Rows :
        /\ sessions[i].status = "active"
               => /\ sessions[i].stop_time = None
                  /\ sessions[i].duration_ms = None
                  /\ sessions[i].deviation_ms = None
        /\ sessions[i].status = "completed"
               => /\ IsSome(sessions[i].stop_time)
                  /\ IsSome(sessions[i].duration_ms)
                  /\ IsSome(sessions[i].deviation_ms)

\* C4 witness: the store holds a completed session and an active one.
C4_Witness ==
    \E i, j \in Rows :
        sessions[i].status = "completed" /\ sessions[j].status = "active"

\* C5: for every completed session deviation_ms = abs(duration_ms -
\* target_time_ms), and no stored deviation is negative.
C5_DeviationIsAbs ==
    \A i \in Rows :
        /\ sessions[i].status = "completed"
               => /\ IsSome(sessions[i].duration_ms)
                  /\ IsSome(sessions[i].deviation_ms)
                  /\ Val(sessions[i].deviation_ms)
                         = Abs(Val(sessions[i].duration_ms) - target_time_ms)
        /\ IsSome(sessions[i].deviation_ms) => Val(sessions[i].deviation_ms) >= 0

\* C5 witness: a session completed short of the target, where the absolute
\* value differs from the signed difference.
C5_Witness ==
    \E i \in Rows :
        /\ sessions[i].status = "completed"
        /\ Val(sessions[i].duration_ms) < target_time_ms
        /\ Val(sessions[i].deviation_ms) > 0

\* round(): the nearest whole number of milliseconds in e ticks, a tie
\* going to the even one.
RoundMs(e) ==
    LET q == e \div SubMs
        r == e % SubMs
    IN  IF 2 * r < SubMs THEN q
        ELSE IF 2 * r > SubMs THEN q + 1
        ELSE IF q % 2 = 0 THEN q ELSE q + 1

\* C6: on completion duration_ms is the elapsed time stop_time - start_time
\* in milliseconds rounded to the nearest whole millisecond.
C6_DurationRounded ==
    \A i \in Rows :
        sessions[i].status = "completed"
            => Val(sessions[i].duration_ms)
                   = RoundMs(Val(sessions[i].stop_time) - sessions[i].start_time)

\* A task t takes the step at label pc of operation op.
StepAt(t, op, pc) ==
    tasks[t].op = op /\ tasks[t].pc = pc /\ tasks'[t] # tasks[t]

\* C7: StartGame called for a user who has an active session that has not
\* lapsed (now <= start_time + ttl) fails with the conflict error, creates no
\* session and leaves the store as it was.  Requests run one at a time.
C7_ConflictOnActive ==
    [][\A t \in Tasks :
          (/\ StepAt(t, "start", "check")
           /\ \E i \in ActiveIdsOf(tasks[t].user) :
                  now <= sessions[i].start_time + TTLTicks)
              => /\ tasks'[t].pc = "done"
                 /\ tasks'[t].result = "conflict"
                 /\ tasks'[t].writes = 0
                 /\ sessions' = sessions]_vars

\* C7 witness: a StartGame has failed with the conflict error and the store
\* holds the user's active session and nothing else.
C7_Witness ==
    \E t \in Tasks :
        /\ tasks[t].op = "start" /\ tasks[t].pc = "done"
        /\ tasks[t].result = "conflict"
        /\ Len(sessions) = 1
        /\ ActiveIdsOf(tasks[t].user) = {1}

\* C8: StartGame called for a user whose active session has lapsed
\* (now > start_time + ttl) succeeds: the prior session is stored as expired
\* before the new row is inserted, and afterwards the user's only active
\* session is the new one.  Requests run one at a time.
C8_StartAfterLapse ==
    [][\A t \in Tasks :
          /\ \A i \in ActiveIdsOf(tasks[t].user) :
                (StepAt(t, "start", "check") /\ now > sessions[i].start_time + TTLTicks)
                    => tasks'[t].pc = "update" /\ tasks'[t].sid = i
          /\ StepAt(t, "start", "update")
                => /\ sessions'[tasks[t].sid].status = "expired"
                   /\ Len(sessions') = Len(sessions)
                   /\ tasks'[t].pc = "new"
          /\ (StepAt(t, "start", "new") /\ tasks[t].sid # 0)
                => tasks'[t].pc = "create"
          /\ (StepAt(t, "start", "create") /\ tasks[t].sid # 0)
                => /\ sessions[tasks[t].sid].status = "expired"
                   /\ Len(sessions') = Len(sessions) + 1
                   /\ tasks'[t].pc = "done" /\ tasks'[t].result = "ok"
                   /\ Val(tasks'[t].ent).id = Len(sessions')
                   /\ ActiveIn(sessions', tasks[t].user) = {Len(sessions')}]_vars

\* C8 witness: a StartGame that found a lapsed session has succeeded; the
\* prior session is expired and the new one is the user's only active one.
C8_Witness ==
    \E t \in Tasks :
        /\ tasks[t].op = "start" /\ tasks[t].pc = "done" /\ tasks[t].result = "ok"
        /\ tasks[t].sid # 0
        /\ sessions[tasks[t].sid].status = "expired"
        /\ ActiveIdsOf(tasks[t].user) = {Val(tasks[t].ent).id}

\* C9: StopGame fails with the not-found error for an id that does not
\* exist, with the authorization error for a session of another user, and
\* with the invalid-state error for the caller's own completed or expired
\* session; in each case it writes nothing.  Requests run one at a time.
C9_StopGameFailures ==
    [][\A t \in Tasks :
          StepAt(t, "stop", "check") =>
              LET sid == tasks[t].sid
                  Failed(res) ==
                      /\ tasks'[t].pc = "done"
                      /\ tasks'[t].result = res
                      /\ tasks'[t].writes = 0
                      /\ sessions' = sessions
              IN  /\ sid \notin Rows => Failed("not_found")
                  /\ (sid \in Rows /\ sessions[sid].user_id # tasks[t].user)
                        => Failed("not_owner")
                  /\ (/\ sid \in Rows
                      /\ sessions[sid].user_id = tasks[t].user
                      /\ sessions[sid].status \in {"completed", "expired"})
                        => Failed("not_active")]_vars

\* C9 witness: a StopGame of the owner on a completed session has failed
\* with the invalid-state error.
C9_Witness ==
    \E t \in Tasks :
        /\ tasks[t].op = "stop" /\ tasks[t].pc = "done"
        /\ tasks[t].result = "not_active"
        /\ sessions[tasks[t].sid].status = "completed"
        /\ sessions[tasks[t].sid].user_id = tasks[t].user

\* C10: StopGame by the owner on an active session that has lapsed stores
\* the session as expired and fails with the expired error; the session is
\* not completed: stop_time, duration_ms and deviation_ms stay absent and
\* the session never is a row of the leaderboard.  Requests run one at a
\* time.
C10_StopLapsed ==
    [][/\ \A t \in Tasks :
             LET sid == tasks[t].sid IN
             /\ (/\ StepAt(t, "stop", "check")
                 /\ sid \in Rows
                 /\ sessions[sid].user_id = tasks[t].user
                 /\ sessions[sid].status = "active"
                 /\ now > sessions[sid].start_time + TTLTicks)
                   => tasks'[t].pc = "update_expired"
             /\ StepAt(t, "stop", "update_expired")
                   => /\ tasks'[t].pc = "done" /\ tasks'[t].result = "expired"
                      /\ sessions'[sid].status = "expired"
                      /\ sessions'[sid].stop_time = None
                      /\ sessions'[sid].duration_ms = None
                      /\ sessions'[sid].deviation_ms = None
                      /\ sid \notin LeaderboardRows(sessions')
       /\ \A i \in Rows :
             sessions[i].status = "expired"
                 => sessions'[i] = sessions[i] /\ i \notin LeaderboardRows(sessions')]_vars

\* C10 witness: a StopGame has failed with the expired error and its
\* session is stored as expired, without stop_time.
C10_Witness ==
    \E t \in Tasks :
        /\ tasks[t].op = "stop" /\ tasks[t].pc = "done"
        /\ tasks[t].result = "expired"
        /\ sessions[tasks[t].sid].status = "expired"
        /\ sessions[tasks[t].sid].stop_time = None

\* C11: GetActiveSession never returns a lapsed session.  When the user's
\* active session has lapsed (now > start_time + ttl) the call stores it as
\* expired, changes no other row and returns absent; otherwise it returns
\* the user's active session as stored, or absent when there is none, and
\* writes nothing.  Requests run one at a time.
C11_GetActiveSession ==
    [][\A t \in Tasks :
          LET u == tasks[t].user
              Returns(e) ==
                  /\ tasks'[t].pc = "done" /\ tasks'[t].result = "ok"
                  /\ tasks'[t].ent = e
                  /\ tasks'[t].writes = 0
                  /\ sessions' = sessions
          IN  /\ StepAt(t, "active", "check")
                    => /\ ActiveIdsOf(u) = {} => Returns(None)
                       /\ \A i \in ActiveIdsOf(u) :
                             IF now > sessions[i].start_time + TTLTicks
                             THEN /\ tasks'[t].pc = "update"
                                  /\ Val(tasks'[t].ent).id = i
                                  /\ sessions' = sessions
                             ELSE Returns(Some(to_entity(i)))
              /\ StepAt(t, "active", "update")
                    => LET i == Val(tasks[t].ent).id IN
                       /\ sessions' = [sessions EXCEPT ![i].status = "expired"]
                       /\ sessions[i].status = "active"
                       /\ tasks'[t].pc = "done" /\ tasks'[t].result = "ok"
                       /\ tasks'[t].ent = None
              /\ (/\ tasks'[t].op = "active" /\ tasks'[t].pc = "done"
                  /\ tasks'[t] # tasks[t]
                  /\ IsSome(tasks'[t].ent))
                    => /\ Val(tasks'[t].ent).status = "active"
                       /\ now <= Val(tasks'[t].ent).start_time + TTLTicks]_vars

\* C11 witness: a GetActiveSession has returned absent after storing the
\* user's lapsed session as expired, and the user has no active session.
C11_Witness ==
    \E t \in Tasks :
        /\ tasks[t].op = "active" /\ tasks[t].pc = "done"
        /\ tasks[t].result = "ok" /\ tasks[t].ent = None
        /\ tasks[t].writes = 1
        /\ ActiveIdsOf(tasks[t].user) = {}
        /\ \E i \in Rows :
              /\ sessions[i].user_id = tasks[t].user
              /\ sessions[i].status = "expired"
              /\ now > sessions[i].start_time + TTLTicks

\* The sessions a sweep with the given cutoff has to expire: the active ones
\* whose start_time is older than the cutoff.
Stale(cutoff) ==
    {i \in Rows : sessions[i].status = "active" /\ sessions[i].start_time < cutoff}

\* C12: ExpireStaleSessions, called at clock value now, stores as expired
\* exactly the sessions that are active with start_time older than
\* now - ttl, returns their number, and leaves every other session and
\* every other field as it was.  Requests run one at a time.
C12_SweepExact ==
    [][\A t \in Tasks :
          /\ (tasks'[t].op = "sweep" /\ tasks'[t].pc = "select" /\ tasks'[t] # tasks[t])
                => tasks'[t].cutoff = now - TTLTicks /\ sessions' = sessions
          /\ StepAt(t, "sweep", "select") => sessions' = sessions
          /\ StepAt(t, "sweep", "commit")
                => /\ sessions' =
                          [i \in Rows |->
                              IF i \in Stale(tasks[t].cutoff)
                              THEN [sessions[i] EXCEPT !.status = "expired"]
                              ELSE sessions[i]]
                   /\ tasks'[t].pc = "done" /\ tasks'[t].result = "ok"
                   /\ tasks'[t].count = Cardinality(Stale(tasks[t].cutoff))]_vars

\* C12 witness: a sweep has returned 1; the store holds the session it
\* expired and an active session that had not lapsed.
C12_Witness ==
    \E t \in Tasks :
        /\ tasks[t].op = "sweep" /\ tasks[t].pc = "done" /\ tasks[t].count = 1
        /\ \E i, j \in Rows :
              /\ sessions[i].status = "expired"
              /\ sessions[i].start_time < now - TTLTicks
              /\ sessions[j].status = "active"
              /\ sessions[j].start_time >= now - TTLTicks

\* C13: ExpireStaleSessions is idempotent: a run with the cutoff of an
\* earlier run (the same clock value, so that no session lapsed in between)
\* returns 0 and leaves the store unchanged.  Requests run one at a time.
C13_SweepIdempotent ==
    \A i, j \in 1..Len(sweeps) :
        (i < j /\ sweeps[i].cutoff = sweeps[j].cutoff)
            => sweeps[j].count = 0 /\ ~sweeps[j].changed

\* C13 witness: a sweep expired a session and a second sweep at the same
\* clock value returned 0.
C13_Witness ==
    /\ Len(sweeps) >= 2
    /\ sweeps[1].count > 0 /\ sweeps[1].changed
    /\ sweeps[2].cutoff = sweeps[1].cutoff
    /\ sweeps[2].count = 0

\* The users who have a completed session with a deviation, and those
\* sessions.
Scored(u) ==
    {i \in Rows : /\ sessions[i].user_id = u
                  /\ sessions[i].status = "completed"
                  /\ IsSome(sessions[i].deviation_ms)}
Eligible == {u \in Users : Scored(u) # {}}
TotalOf(u) == SumDeviation(sessions, Scored(u))
HasEntry(u) == \E k \in DOMAIN reply.rows : reply.rows[k].user_id = u

\* C14: GetLeaderboard(limit) returns at most limit entries, in the order
\* of non-decreasing avg_deviation_ms, entry number k having rank k; the
\* entries are those of the eligible users with the lowest average
\* deviations: min(limit, number of eligible users) entries, none with a
\* higher average than an eligible user left out.
C14_LeaderboardOrder ==
    reply.op = "leaderboard" =>
        LET r == reply.rows IN
        /\ Len(r) <= reply.limit
        /\ Len(r) = IF Cardinality(Eligible) < reply.limit
                    THEN Cardinality(Eligible) ELSE reply.limit
        /\ \A k \in DOMAIN r : r[k].rank = k
        /\ \A a, b \in DOMAIN r :
              a < b => /\ r[a].avg_deviation_ms <= r[b].avg_deviation_ms
                       /\ r[a].user_id # r[b].user_id
        /\ \A k \in DOMAIN r : \A v \in Eligible :
              ~HasEntry(v) =>
                  TotalOf(r[k].user_id) * Cardinality(Scored(v))
                      <= TotalOf(v) * Cardinality(Scored(r[k].user_id))

\* C14 witness: two users are eligible and the limit is 1; the entry
\* returned is that of the user with the lower average, who does not have
\* the lowest single deviation.
C14_Witness ==
    /\ reply.op = "leaderboard" /\ reply.limit = 1 /\ Len(reply.rows) = 1
    /\ Cardinality(Eligible) = 2
    /\ \E v \in Eligible :
          /\ ~HasEntry(v)
          /\ \E i \in Scored(v) :
                Val(sessions[i].deviation_ms) < reply.rows[1].best_deviation_ms

\* The entry of a user carries the count and the minimum of the user's
\* completed sessions.
EntryAggregates(e) ==
    /\ e.total_games = Cardinality(Scored(e.user_id))
    /\ \A i \in Scored(e.user_id) :
          e.best_deviation_ms <= Val(sessions[i].deviation_ms)
    /\ \E i \in Scored(e.user_id) :
          e.best_deviation_ms = Val(sessions[i].deviation_ms)

\* C15 as stated: the leaderboard has an entry for a user if and only if
\* the user has a completed session with a deviation, and the entry's
\* total_games and best_deviation_ms are the count and the minimum of those
\* sessions.
C15_EntryIffCompleted ==
    reply.op = "leaderboard" =>
        /\ \A u \in Users : HasEntry(u) <=> u \in Eligible
        /\ \A k \in DOMAIN reply.rows : EntryAggregates(reply.rows[k])

\* C15, amended: the leaderboard has an entry for a user only if the user
\* has a completed session with a deviation, and it has an entry for every
\* such user unless the list is cut at limit entries; an entry's
\* total_games and best_deviation_ms are the count and the minimum of the
\* user's completed sessions, so that active and expired sessions
\* contribute nothing.
C15_EntryOnlyIfCompleted ==
    reply.op = "leaderboard" =>
        /\ \A u \in Users : HasEntry(u) => u \in Eligible
        /\ \A u \in Eligible : HasEntry(u) \/ Len(reply.rows) = reply.limit
        /\ \A k \in DOMAIN reply.rows : EntryAggregates(reply.rows[k])

\* C15 witness: the leaderboard has an entry with two games for a user who
\* also has a session that is not completed, and none for the other user,
\* who has only sessions that are not completed.
C15_Witness ==
    /\ reply.op = "leaderboard" /\ Len(reply.rows) = 1
    /\ reply.rows[1].total_games = 2
    /\ reply.rows[1].best_deviation_ms < 4
    /\ \E i \in Rows : /\ sessions[i].user_id = reply.rows[1].user_id
                        /\ sessions[i].status # "completed"
    /\ \E u \in Users : u \notin Eligible

\* C16: GetHistory(user_id, limit) returns only sessions of the user, at
\* most limit of them (none for a limit below 1), latest creation time
\* first, and they are the most recently created sessions of the user; the
\* store is left as it was.
C16_HistoryLimited ==
    reply.op = "history" =>
        LET r == reply.rows
            mine == {i \in Rows : sessions[i].user_id = reply.user}
        IN  /\ \A k \in DOMAIN r : r[k].user_id = reply.user /\ r[k] = to_entity(r[k].id)
            /\ Len(r) <= IF reply.limit < 0 THEN 0 ELSE reply.limit
            /\ \A a, b \in DOMAIN r :
                  a < b => /\ r[a].created_at >= r[b].created_at
                           /\ r[a].id # r[b].id
            /\ \A i \in mine :
                  (\A k \in DOMAIN r : r[k].id # i)
                      => \A k \in DOMAIN r : r[k].created_at >= sessions[i].created_at

\* A sender t takes the last step of a pass of kind op: its awaited send
\* returns and the call ends.
PassEnds(t, op) ==
    /\ senders[t].op = op /\ senders[t].pc = "sending"
    /\ senders'[t].pc = "done"

\* C17: a broadcast to a type delivers the message to every healthy
\* connection of the type even when other connections fail to send: every
\* connection of the copy is sent to, a connection misses the message only
\* if its send failed, and when the broadcast ends exactly the connections
\* whose send failed are disconnected: the count of the type decreases by
\* the number of them that were still registered, and no other connection
\* is touched.
C17_BroadcastIsolatesFailures ==
    [][\A t \in Senders :
          PassEnds(t, "type") =>
              LET s == senders'[t]
                  type == s.type
                  F == {c \in s.snap : s.msg \notin inbox'[c]}
              IN  /\ s.result = "ok"
                  /\ Range(s.attempted) = s.snap
                  /\ F \subseteq failing
                  /\ F = s.disconnected
                  /\ Members(connections', type) = Members(connections, type) \ F
                  /\ Registered(connection_info')
                         = Registered(connection_info) \ F
                  /\ get_connection_count(connections', type)
                         = get_connection_count(connections, type)
                             - Cardinality(F \cap Members(connections, type))]_vars

\* C17 witness: a broadcast to two connections has ended; the send to one
\* failed and it is no longer registered, the other received the message
\* and is the one connection left.
C17_Witness ==
    \E t \in Senders : \E c, d \in Sockets :
        /\ senders[t].op = "type" /\ senders[t].pc = "done"
        /\ senders[t].snap = {c, d} /\ c # d
        /\ senders[t].disconnected = {c}
        /\ senders[t].msg \in inbox[d] /\ senders[t].msg \notin inbox[c]
        /\ Members(connections, senders[t].type) = {d}
        /\ get_connection_count(connections, senders[t].type) = 1
        /\ Registered(connection_info) = {d}

\* C18: send_to_connection_type works on the copy of the connections of
\* its type taken at the call: the copy does not change while the call is
\* in flight, each connection of the copy is sent to exactly once and no
\* other one, whatever is connected or disconnected while a send is
\* awaited, and the call disconnects nothing before its last send has
\* returned.
C18_BroadcastOnSnapshot ==
    [][\A t \in Senders :
          LET s == senders[t]
              s2 == senders'[t]
          IN  /\ (FreeSender(t) /\ s2 # s /\ s2.op = "type")
                    => s2.snap = Members(connections, s2.type)
              /\ (s.op = "type" /\ s.pc = "sending") => s2.snap = s.snap
              /\ (s2.op = "type" /\ s2.pc = "sending")
                    => /\ Range(s2.attempted) \cup s2.todo = s2.snap
                       /\ Range(s2.attempted) \cap s2.todo = {}
                       /\ Len(s2.attempted) = Cardinality(Range(s2.attempted))
                       /\ s2.cur = s2.attempted[Len(s2.attempted)]
                       /\ s2 # s => UNCHANGED << connections, connection_info >>
              /\ (s2.op = "type" /\ s2.pc = "done")
                    => /\ Range(s2.attempted) = s2.snap
                       /\ Len(s2.attempted) = Cardinality(s2.snap)]_vars

\* C18 witness: a broadcast is suspended on a send while a connection of
\* its copy that it has not yet sent to has been disconnected, or while a
\* connection that is not in its copy has been connected.
C18_Witness ==
    \E t \in Senders :
        /\ senders[t].op = "type" /\ senders[t].pc = "sending"
        /\ \/ \E c \in senders[t].todo :
                 c \notin Members(connections, senders[t].type)
           \/ \E c \in Members(connections, senders[t].type) :
                 c \notin senders[t].snap

\* C19: the calls of the manager are safe when they interleave: when a
\* connection is connected or disconnected while send_to_user or a
\* broadcast is suspended on a send, the pass is not aborted: it ends
\* normally, every connection that matched at the call and is still
\* registered and healthy has received the message, and every connection
\* whose send failed is no longer registered.
C19_PassSurvivesInterleaving ==
    [][\A t \in Senders :
          (senders[t].pc = "sending" /\ senders'[t].pc = "done") =>
              LET s == senders'[t] IN
              /\ s.result = "ok"
              /\ \A c \in s.disconnected : c \notin Registered(connection_info')
              /\ \A c \in s.snap :
                    (c \in Registered(connection_info') /\ c \notin failing)
                        => s.msg \in inbox'[c]]_vars

\* C20: the two maps of the manager agree in every reachable state: a
\* connection is in the set of type t if and only if it has metadata and
\* its metadata names t, whatever the sequence of connect, disconnect and
\* send calls, a second connect of a connection under another type
\* included.
C20_MapsConsistent ==
    \A ws \in Sockets, type \in ConnectionTypes :
        ws \in Members(connections, type)
            <=> /\ HasInfo(connection_info, ws)
                /\ connection_info[InfoIndex(connection_info, ws)].type = type

\* C21: no reachable state of the registry holds a type mapped to an empty
\* set: when a disconnect, or the clean-up after a failed send, removes the
\* last connection of a type, the key of the type is deleted with it, and
\* get_connection_count of a type without a key is 0.
C21_NoEmptyGroup ==
    \A type \in ConnectionTypes :
        /\ type \in DOMAIN connections => connections[type] # {}
        /\ type \notin DOMAIN connections
              => get_connection_count(connections, type) = 0

\* C21 witness: the last connection of the leaderboard type has been
\* removed, its metadata is deleted and the type has no key.
C21_Witness ==
    /\ \E i \in 1..Len(connection_info) :
          connection_info[i] = Tomb
    /\ Registered(connection_info) = {}
    /\ "leaderboard" \notin DOMAIN connections
    /\ get_connection_count(connections, "leaderboard") = 0

\* The metadata of a registered socket.
InfoOf(ws) == connection_info[InfoIndex(connection_info, ws)]

UserPassEnds(t) ==
    /\ senders'[t].op = "user" /\ senders'[t].pc = "done"
    /\ senders[t] # senders'[t]

\* C23: send_to_user(user_id, message) delivers the message to every
\* registered connection whose metadata has this user_id, whatever its
\* type, unless its send fails, and to no other connection: none of
\* another user, none without a user, none that is not registered, and a
\* subscription to the user recorded on a connection does not make it a
\* recipient.
C23_OwnerOnly ==
    [][\A t \in Senders :
          UserPassEnds(t) =>
              LET s == senders'[t] IN
              /\ s.result = "ok"
              /\ \A c \in Sockets :
                    IF c \in Registered(connection_info)
                          /\ InfoOf(c).user_id = s.user
                    THEN s.msg \in inbox'[c] \/ c \in failing
                    ELSE s.msg \notin inbox'[c]]_vars

\* C23 witness: a send to a user has ended; a connection of the user
\* received the message and a connection of another type without a user,
\* subscribed to the user, did not.
C23_Witness ==
    \E t \in Senders : \E c, d \in Sockets :
        /\ senders[t].op = "user" /\ senders[t].pc = "done"
        /\ c \in Registered(connection_info) /\ d \in Registered(connection_info)
        /\ InfoOf(c).user_id = senders[t].user
        /\ InfoOf(d).user_id = 0
        /\ InfoOf(d).subscribed_user_id = senders[t].user
        /\ InfoOf(c).type # InfoOf(d).type
        /\ senders[t].msg \in inbox[c]
        /\ senders[t].msg \notin inbox[d]

\* The stop request of slot t got a completed session from execute.
StopCompleted(t) ==
    tasks[t].op = "stop" /\ tasks[t].pc = "done" /\ tasks[t].result = "ok"

\* C24: a failure of the notifications never fails the stop request: once
\* StopGame has completed a session, whichever of the leaderboard query,
\* the sends of the broadcast and the queries of the high-score check
\* raises, the session stays completed in the store, the handler is never
\* stuck, and its response is the scoring result of the session.
C24_NotificationNeverFailsStop ==
    \A t \in Tasks :
        (StopCompleted(t) /\ stops[t].pc # "idle") =>
            /\ sessions[tasks[t].sid].status = "completed"
            /\ stops[t].result \in {"", "200"}
            /\ stops[t].pc = "done" =>
                  /\ stops[t].result = "200"
                  /\ stops[t].body.session_id = tasks[t].sid
                  /\ stops[t].body.duration_ms = sessions[tasks[t].sid].duration_ms
                  /\ stops[t].body.deviation_ms = sessions[tasks[t].sid].deviation_ms
            /\ stops[t].pc # "done" =>
                  ENABLED (\/ Stop_notify_leaderboard_update(t)
                           \/ Stop_personal_best(t)
                           \/ Stop_high_score(t)
                           \/ Stop_respond(t)
                           \/ \E s \in Senders : SendReturn(s))

\* C24 witness: a stop request has answered with the scoring result after
\* a query of its notifications raised and the send to a connection of its
\* broadcast failed.
C24_Witness ==
    \E t \in Tasks :
        /\ StopCompleted(t)
        /\ stops[t].pc = "done" /\ stops[t].result = "200"
        /\ stops[t].raised = {"history"}
        /\ \E s \in Senders : senders[s].disconnected # {}
        /\ sessions[tasks[t].sid].status = "completed"

\* C25: a stop request whose StopGame returns a completed session calls
\* notify_leaderboard_update exactly once, with the id of the user who
\* stopped, whether or not the session is a best one, and at a time when
\* the completed session is in the store; a stop request whose StopGame
\* fails calls no notification.
C25_NotifyOncePerCompletedStop ==
    [][\A t \in Tasks :
          /\ stops'[t].notified > stops[t].notified =>
                /\ stops[t].notified = 0 /\ stops'[t].notified = 1
                /\ StopCompleted(t)
                /\ stops'[t].notify_user = tasks[t].user
                /\ sessions[tasks[t].sid].user_id = tasks[t].user
                /\ sessions[tasks[t].sid].status = "completed"
          /\ (stops'[t].pc = "done" /\ stops[t].pc # "done") =>
                /\ stops'[t].notified = IF tasks[t].result = "ok" THEN 1 ELSE 0
                /\ tasks[t].result # "ok" =>
                      /\ stops'[t].high_score = 0
                      /\ payloads' = << >>]_vars

\* C25 witness: a stop request that completed a session which is not the
\* best of its user has answered, and notify_leaderboard_update was called
\* once.
C25_Witness ==
    \E t \in Tasks :
        /\ StopCompleted(t)
        /\ stops[t].pc = "done" /\ stops[t].notified = 1
        /\ stops[t].notify_user = tasks[t].user
        /\ stops[t].high_score = 0
        /\ stops[t].raised = {}
        /\ \E i \in 1..Len(sessions) :
              /\ sessions[i].user_id = tasks[t].user
              /\ sessions[i].status = "completed"
              /\ Val(sessions[i].deviation_ms)
                    < Val(sessions[tasks[t].sid].deviation_ms)

\* The messages of type leaderboard_update built so far.
Updates(p) == {i \in 1..Len(p) : p[i].type = "leaderboard_update"}

\* C26: a call of notify_leaderboard_update(u) whose leaderboard query
\* returns builds exactly one leaderboard_update message, with
\* triggered_by_user = u and the leaderboard of the store at that time,
\* and hands it to the broadcast of the type "leaderboard": the broadcast
\* takes the connections of the type at that time, and when it ends every
\* one of them whose send did not fail has received the message.  No
\* other step builds a leaderboard_update.
C26_UpdateReachesSubscribers ==
    [][/\ \A t \in Tasks :
             (stops'[t].notified > stops[t].notified
                  /\ "leaderboard_update" \notin stops'[t].raised) =>
                 /\ Len(payloads') = Len(payloads) + 1
                 /\ LET m == payloads'[Len(payloads')] IN
                    /\ m.type = "leaderboard_update"
                    /\ m.triggered_by_user = tasks[t].user
                    /\ m.leaderboard \in get_leaderboard(sessions, leaderboard_top_count)
                    /\ m.total_entries = Len(m.leaderboard)
                    /\ \E s \in Senders :
                          /\ senders'[s].msg = m.msg
                          /\ senders'[s].op = "type"
                          /\ senders'[s].type = "leaderboard"
                          /\ senders'[s].snap = Members(connections, "leaderboard")
       /\ Updates(payloads') # Updates(payloads) =>
             \E t \in Tasks : stops'[t].notified > stops[t].notified
       /\ \A s \in Senders :
             (senders'[s].pc = "done" /\ senders'[s] # senders[s]
                  /\ \E i \in Updates(payloads') : payloads'[i].msg = senders'[s].msg) =>
                 \A c \in senders'[s].snap :
                     c \in failing \/ senders'[s].msg \in inbox'[c]]_vars

\* C26 witness: the broadcast of a leaderboard_update with two entries has
\* ended and both connections of the type have received it.
C26_Witness ==
    \E s \in Senders : \E i \in Updates(payloads) :
        /\ payloads[i].msg = senders[s].msg
        /\ Len(payloads[i].leaderboard) = 2
        /\ senders[s].pc = "done"
        /\ senders[s].snap = Sockets
        /\ \A c \in Sockets : senders[s].msg \in inbox[c]

\* The completed sessions of the store that have a deviation, and those
\* of user u.
CompletedRows == LeaderboardRows(sessions)
CompletedOf(u) == {i \in CompletedRows : sessions[i].user_id = u}

\* C27: notify_new_high_score is called only when the deviation of the
\* completed session is the personal best of its user, the minimum
\* deviation of the completed sessions of the user, and also a global
\* best: at most the minimum best_deviation_ms of all users of the
\* leaderboard, which is the minimum deviation of all completed sessions.
C27_HighScoreOnlyIfGlobalBest ==
    [][\A t \in Tasks :
          stops'[t].high_score > stops[t].high_score =>
              LET d == Val(Session(t).deviation_ms) IN
              /\ \A i \in CompletedOf(tasks[t].user) :
                    d <= Val(sessions[i].deviation_ms)
              /\ \A i \in CompletedRows : d <= Val(sessions[i].deviation_ms)]_vars

\* C28: whenever the endpoint of a connection has terminated, on the
\* disconnect of the client or on an error after the connection was
\* registered, the connection is unregistered: it is in no set of
\* connections and has no metadata.
C28_TerminatedIsUnregistered ==
    \A ws \in Sockets :
        handlers[ws].pc = "closed" =>
            /\ ws \notin Registered(connection_info)
            /\ \A type \in DOMAIN connections : ws \notin connections[type]

\* C28 witness: an endpoint has terminated on the failed send of a reply,
\* after its connection was registered and had received a frame, while
\* the other connection is still registered.
C28_Witness ==
    \E ws, other \in Sockets :
        /\ handlers[ws].pc = "closed"
        /\ handlers[ws].frames = 1 /\ handlers[ws].frame = "invalid_json"
        /\ handlers[ws].replies = << >>
        /\ ws \notin Registered(connection_info)
        /\ Registered(connection_info) = {other}

\* The replies the claim allows for a frame that is JSON.
ExpectedReplies(frame) ==
    CASE frame = "ping" -> {"pong"}
      [] frame = "request_leaderboard" -> {"connection_established"}
      [] frame \in {"subscribe_user_updates", "subscribe_without_user"}
            -> {"subscription_confirmed"}
      [] frame \in {"unknown_type", "missing_type"}
            -> {"error: Unknown message type"}
      [] frame = "not_an_object"
            -> {"error: Unknown message type", "error: Error processing message"}
      [] OTHER -> {}

\* C29: for every inbound message the handler sends exactly one reply on
\* the connection, selected by the type of the message: when the handling
\* of a JSON frame of a healthy connection has ended and the endpoint is
\* back at receive_text, one reply was sent, and it is pong for ping, the
\* connection status for request_leaderboard, subscription_confirmed for
\* subscribe_user_updates and an error for another or a missing type.
C29_OneReplyPerMessage ==
    [][\A ws \in Sockets :
          (/\ handlers'[ws] # handlers[ws]
           /\ handlers'[ws].pc = "receive"
           /\ handlers'[ws].frame \notin {"", "invalid_json"}
           /\ ws \notin failing) =>
              /\ Len(handlers'[ws].replies) = 1
              /\ handlers'[ws].replies[1] \in ExpectedReplies(handlers'[ws].frame)]_vars

\* C30: a frame that is not JSON is answered with the error "Invalid JSON
\* format" and the loop goes on: as long as the client is there the
\* connection stays registered, the endpoint sends this reply and stands
\* again at receive_text, where the next frame is taken.
C30_InvalidJsonKeepsLoop ==
    \A ws \in Sockets :
        (handlers[ws].frame = "invalid_json" /\ ws \notin failing) =>
            /\ ws \in Registered(connection_info)
            /\ ws \in Members(connections, "leaderboard")
            /\ handlers[ws].pc \in {"reply_send", "receive"}
            /\ handlers[ws].pc = "reply_send" =>
                  /\ handlers[ws].reply = "error: Invalid JSON format"
                  /\ ENABLED Handler_reply_sent(ws)
            /\ handlers[ws].pc = "receive" =>
                  /\ handlers[ws].replies = << "error: Invalid JSON format" >>
                  /\ handlers[ws].frames < MaxFrames =>
                        ENABLED Handler_receive(ws, "ping", 1)

\* C30 witness: the endpoint has answered a frame that is not JSON, its
\* connection is registered and it stands at receive_text with a frame
\* still to come.
C30_Witness ==
    \E ws \in Sockets :
        /\ handlers[ws].frame = "invalid_json"
        /\ handlers[ws].pc = "receive"
        /\ handlers[ws].replies = << "error: Invalid JSON format" >>
        /\ handlers[ws].frames < MaxFrames
        /\ ws \in Registered(connection_info)
        /\ ws \notin failing

\* C31: a subscribe_user_updates frame that carries data.user_id makes the
\* handler record that user id as the subscription of this connection's
\* metadata and reply subscription_confirmed with the same user id; the type
\* and the user of the connection, the metadata of every other connection
\* and the sets of connections stay as they were, also when the reply is
\* sent.
C31_SubscribeRecordsTag ==
    [][\A ws \in Sockets :
          /\ (/\ handlers[ws].pc = "receive"
              /\ handlers'[ws].frames = handlers[ws].frames + 1
              /\ handlers'[ws].frame = "subscribe_user_updates")
                => /\ HasInfo(connection_info, ws)
                   /\ Len(connection_info') = Len(connection_info)
                   /\ connections' = connections
                   /\ \E target \in Users :
                         /\ handlers'[ws].reply = "subscription_confirmed"
                         /\ handlers'[ws].reply_user = target
                         /\ handlers'[ws].pc = "reply_send"
                         /\ \A i \in 1..Len(connection_info) :
                               connection_info'[i] =
                                   IF connection_info[i].ws = ws
                                   THEN [connection_info[i] EXCEPT
                                            !.subscribed_user_id = target]
                                   ELSE connection_info[i]
          /\ (/\ handlers[ws].pc = "reply_send"
              /\ handlers[ws].reply = "subscription_confirmed"
              /\ ws \notin failing
              /\ handlers'[ws] # handlers[ws])
                => /\ handlers'[ws].replies = << "subscription_confirmed" >>
                   /\ handlers'[ws].reply_user = InfoOf(ws).subscribed_user_id
                   /\ handlers'[ws].pc = "receive"
                   /\ connection_info' = connection_info
                   /\ connections' = connections]_vars

\* C31 witness: a connection of one user has subscribed to another user and
\* has been sent the confirmation, while a second connection is registered
\* without a subscription.
C31_Witness ==
    \E ws, other \in Sockets :
        /\ ws # other
        /\ handlers[ws].frame = "subscribe_user_updates"
        /\ handlers[ws].replies = << "subscription_confirmed" >>
        /\ HasInfo(connection_info, ws) /\ HasInfo(connection_info, other)
        /\ InfoOf(ws).type = "leaderboard"
        /\ InfoOf(ws).user_id # 0
        /\ InfoOf(ws).subscribed_user_id \notin {0, InfoOf(ws).user_id}
        /\ InfoOf(ws).subscribed_user_id = handlers[ws].reply_user
        /\ InfoOf(other).subscribed_user_id = 0

\* C32: the grade of a deviation is A+ for 0, A for 1..99, B for 100..499,
\* C for 500..999, D for 1000..1999 and F for 2000 and above, for every
\* deviation that is not negative.
C32_GradeBands ==
    score.grade # ""
        => LET d == Val(score.deviation_ms) IN
           /\ d >= 0
           /\ score.grade =
                 CASE d = 0 -> "A+"
                   [] d \in 1..99 -> "A"
                   [] d \in 100..499 -> "B"
                   [] d \in 500..999 -> "C"
                   [] d \in 1000..1999 -> "D"
                   [] OTHER -> "F"

\* C32 witness: the deviation 2000, the first one graded F, has been graded.
C32_Witness ==
    /\ score.deviation_ms = Some(2000)
    /\ score.grade = "F"

\* C33: the accuracy score, in hundredths, is 100.00 for the deviation 0,
\* 0 for a deviation equal to the target time and for every larger one,
\* between 0 and 100.00 for every deviation, and 0 for a session without
\* deviation.
C33_AccuracyClamped ==
    IsSome(score.accuracy)
        => LET a == Val(score.accuracy) IN
           /\ a >= 0 /\ a <= 10000
           /\ score.deviation_ms = None => a = 0
           /\ score.deviation_ms = Some(0) => a = 10000
           /\ (IsSome(score.deviation_ms)
                  /\ Val(score.deviation_ms) >= target_time_ms) => a = 0

\* C33 witness: the accuracy score of a deviation larger than the target
\* time has been computed.
C33_Witness ==
    /\ IsSome(score.accuracy)
    /\ IsSome(score.deviation_ms)
    /\ Val(score.deviation_ms) > target_time_ms

\* A StopGame request in flight for a session that exists and belongs to
\* another user than the caller.
NonOwnerStop(t) ==
    /\ tasks[t].op = "stop"
    /\ \/ /\ tasks[t].pc = "get_by_id"
          /\ tasks[t].sid \in Rows
          /\ sessions[tasks[t].sid].user_id # tasks[t].user
       \/ /\ tasks[t].pc = "check"
          /\ IsSome(tasks[t].ent)
          /\ Val(tasks[t].ent).user_id # tasks[t].user

\* C34: the checks of StopGame run in the order existence, ownership,
\* status, lapse: a StopGame by a user who does not own the session fails
\* with the authorization error whatever the status of the session and
\* never writes to the store; a lapsed active session of another user is
\* not stored as expired by it.  Requests interleave freely.
C34_NonOwnerNeverModifies ==
    [][\A t \in Tasks :
          (NonOwnerStop(t) /\ tasks'[t] # tasks[t])
              => /\ sessions' = sessions
                 /\ tasks'[t].writes = 0
                 /\ tasks'[t].pc \in {"check", "done"}
                 /\ tasks'[t].pc = "done" => tasks'[t].result = "not_owner"]_vars

\* C34 witness: a StopGame by a user who does not own the session has
\* failed with the authorization error while the session is active and has
\* lapsed.
C34_Witness ==
    \E t \in Tasks :
        /\ tasks[t].op = "stop" /\ tasks[t].pc = "done"
        /\ tasks[t].result = "not_owner"
        /\ tasks[t].sid \in Rows
        /\ sessions[tasks[t].sid].user_id # tasks[t].user
        /\ sessions[tasks[t].sid].status = "active"
        /\ now > sessions[tasks[t].sid].start_time + TTLTicks

\* C35: no operation changes the id, user_id, start_time or created_at of
\* a stored session: rows are never removed or moved, and every write
\* leaves these columns of every row as they were, so that updates write
\* only stop_time, duration_ms, deviation_ms and status.  Requests
\* interleave freely.
C35_IdentityImmutable ==
    [][/\ Len(sessions') >= Len(sessions)
       /\ \A i \in Rows :
             /\ RowEntity(sessions', i).id = RowEntity(sessions, i).id
             /\ sessions'[i].user_id = sessions[i].user_id
             /\ sessions'[i].start_time = sessions[i].start_time
             /\ sessions'[i].created_at = sessions[i].created_at]_vars

\* C35 witness: one stored session has been expired, after the clock had
\* advanced past its creation, and another has been completed.
C35_Witness ==
    \E i, j \in Rows :
        /\ sessions[i].status = "expired"
        /\ sessions[j].status = "completed"
        /\ now > sessions[i].created_at

\* C36: a stored session becomes completed only by the update of a
\* StopGame request whose user is the user of the session, and no step of
\* a StartGame, StopGame or GetActiveSession request of one user changes a
\* session of another user.  Requests interleave freely.
C36_OnlyOwnerModifies ==
    [][/\ \A t \in Tasks :
             (/\ ~Free(t)
              /\ tasks'[t] # tasks[t]
              /\ tasks[t].op \in {"start", "stop", "active"})
                 => \A i \in Rows :
                       sessions[i].user_id # tasks[t].user
                           => sessions'[i] = sessions[i]
       /\ \A i \in Rows :
             (sessions[i].status # "completed" /\ sessions'[i].status = "completed")
                 => \E t \in Tasks :
                       /\ StepAt(t, "stop", "update")
                       /\ tasks[t].sid = i
                       /\ tasks[t].user = sessions[i].user_id]_vars

\* C36 witness: a StopGame of the owner has completed a session while an
\* active session of another user is stored.
C36_Witness ==
    \E t \in Tasks, j \in Rows :
        /\ tasks[t].op = "stop" /\ tasks[t].pc = "done" /\ tasks[t].result = "ok"
        /\ sessions[tasks[t].sid].status = "completed"
        /\ sessions[tasks[t].sid].user_id = tasks[t].user
        /\ sessions[j].user_id # tasks[t].user
        /\ sessions[j].status = "active"

\* C37: no session is completed after it has lapsed: the clock never goes
\* back, and every completed session has 0 <= stop_time - start_time <=
\* the time to live, so that its duration_ms is at most the time to live in
\* milliseconds.
C37_CompletedWithinTTL ==
    \A i \in Rows :
        sessions[i].status = "completed"
            => /\ Val(sessions[i].stop_time) - sessions[i].start_time >= 0
               /\ Val(sessions[i].stop_time) - sessions[i].start_time <= TTLTicks
               /\ Val(sessions[i].duration_ms) <= session_expire_minutes * 60 * 1000

\* C38: the batch sweep and the lazy lapse test agree.  The sweep called
\* at clock value now takes the cutoff now - ttl, selects and expires
\* exactly the active sessions for which is_expired() read at the same now
\* is true, both comparisons being strict: a session exactly ttl old is
\* expired by neither.  Requests run one at a time.
C38_SweepAgreesWithLazy ==
    [][\A t \in Tasks :
          /\ (Free(t) /\ tasks'[t].op = "sweep" /\ tasks'[t].pc = "select")
                => tasks'[t].cutoff + TTLTicks = now
          /\ StepAt(t, "sweep", "select")
                => tasks'[t].rows =
                       {i \in Rows :
                           is_expired(to_entity(i), tasks[t].cutoff + TTLTicks)}
          /\ StepAt(t, "sweep", "commit")
                => \A i \in Rows :
                       (sessions[i].status = "active"
                            /\ sessions'[i].status = "expired")
                           <=> is_expired(to_entity(i), tasks[t].cutoff + TTLTicks)]_vars

\* C38 witness: a sweep has returned without expiring anything while an
\* active session was exactly ttl old at the clock value of the sweep, and
\* the lazy test at that clock value is false for it.
C38_Witness ==
    \E k \in DOMAIN sweeps, i \in Rows :
        /\ sweeps[k].count = 0
        /\ sessions[i].status = "active"
        /\ sessions[i].start_time = sweeps[k].cutoff
        /\ ~is_expired(to_entity(i), sweeps[k].cutoff + TTLTicks)

\* The message numbered m that the notification service built.
Payload(m) == payloads[CHOOSE i \in DOMAIN payloads : payloads[i].msg = m]

\* The last leaderboard_update a socket received, as a set: empty when it
\* received none.
LastUpdate(c) ==
    LET ups == {k \in DOMAIN received[c] :
                   Payload(received[c][k]).type = "leaderboard_update"}
    IN  {Payload(received[c][k]).leaderboard :
            k \in {k \in ups : \A j \in ups : j <= k}}

\* Both stop requests have completed their session and have returned
\* their response, none of their leaderboard queries has raised, and no
\* broadcast is in flight.
RaceFinished ==
    /\ calls = MaxTasks
    /\ \A t \in Tasks :
          /\ tasks[t].op = "stop" /\ tasks[t].result = "ok"
          /\ stops[t].pc = "done"
          /\ stops[t].raised = {}
    /\ \A s \in DOMAIN senders : FreeSender(s)

\* C39: leaderboard updates are not delivered out of date: when several
\* stop requests have completed concurrently and they and their
\* notifications have finished, the last leaderboard_update received by
\* each connection that stayed registered and healthy is the leaderboard
\* of the final store.
C39_LastUpdateIsCurrent ==
    RaceFinished
        => \A c \in Members(connections, "leaderboard") \ failing :
               \A lb \in LastUpdate(c) :
                   lb \in get_leaderboard(sessions, leaderboard_top_count)

\* C40: the first message a newly accepted connection receives is its
\* connection_established status: while the endpoint of a connection is
\* between the registration of the socket and the send of its initial
\* status, no broadcast of a stop request has been delivered to it.
C40_StatusIsFirst ==
    \A ws \in Sockets :
        (handlers[ws].pc = "status_query" /\ handlers[ws].frames = 0)
            => received[ws] = << >>

=============================================================================
